---- MODULE Spec2Model ----
(***************************************************************************)
(* Model of the XSD -> JSON-LD / SHACL / JSON-Schema converter.            *)
(*                                                                         *)
(*   converters/core/xsd_parser.py   XSDParser   (extraction)              *)
(*   converters/generators.py        XSDGenerator (the four renderers)     *)
(*   converters/jsonld/__init__.py   the request wrappers                  *)
(*                                                                         *)
(* Python strings are sequences of one-character strings, so that the      *)
(* substring tests, the regular expressions and the str methods of the     *)
(* code are computed and not assumed.  Every other Python value is a       *)
(* record whose single field names its type (NoneV, StrV, IntV, ListV,     *)
(* DictV); a dict is the sequence of its items in insertion order.         *)
(***************************************************************************)
EXTENDS Integers, Sequences, FiniteSets, TLC

(***************************************************************************)
(* Python values                                                           *)
(***************************************************************************)
NoneV == [none |-> TRUE]
StrV(cs) == [s |-> cs]
ListV(xs) == [l |-> xs]
DictV(items) == [d |-> items]

IsNone(v) == "none" \in DOMAIN v
IsStr(v) == "s" \in DOMAIN v
IsInt(v) == "i" \in DOMAIN v
IsList(v) == "l" \in DOMAIN v
IsDict(v) == "d" \in DOMAIN v

\* bool(v): None, "", 0, [] and {} are false
Truthy(v) ==
    CASE IsNone(v) -> FALSE
      [] IsStr(v) -> v.s # <<>>
      [] IsInt(v) -> v.i # <<"0">>
      [] IsList(v) -> v.l # <<>>
      [] IsDict(v) -> v.d # <<>>

\* a or b
PyOr(a, b) == IF Truthy(a) THEN a ELSE b

Item(k, v) == [k |-> k, v |-> v]

\* key in d   (d a sequence of items)
DictHas(items, k) == \E n \in 1..Len(items) : items[n].k = k

\* d[k] for a key that is present
DictAt(items, k) == items[CHOOSE n \in 1..Len(items) : items[n].k = k].v

\* d[k] = v : an existing key keeps its position, a new key goes last
DictSet(items, k, v) ==
    IF DictHas(items, k)
    THEN [n \in 1..Len(items) |-> IF items[n].k = k THEN Item(k, v) ELSE items[n]]
    ELSE Append(items, Item(k, v))

DictKeys(items) == [n \in 1..Len(items) |-> items[n].k]

(***************************************************************************)
(* str methods and the pieces of re that the code uses                     *)
(***************************************************************************)
Digits == <<"0", "1", "2", "3", "4", "5", "6", "7", "8", "9">>
UpperCase == <<"A", "B", "C", "D", "E", "F", "G", "H", "I", "J", "K", "L", "M",
               "N", "O", "P", "Q", "R", "S", "T", "U", "V", "W", "X", "Y", "Z">>
LowerCase == <<"a", "b", "c", "d", "e", "f", "g", "h", "i", "j", "k", "l", "m",
               "n", "o", "p", "q", "r", "s", "t", "u", "v", "w", "x", "y", "z">>
WhiteSpace == {" ", "\t", "\n", "\r"}

IsDigit(c) == \E n \in 1..10 : Digits[n] = c
DigitVal(c) == (CHOOSE n \in 1..10 : Digits[n] = c) - 1
IsSpace(c) == c \in WhiteSpace

LowerChar(c) ==
    IF \E n \in 1..26 : UpperCase[n] = c
    THEN LowerCase[CHOOSE n \in 1..26 : UpperCase[n] = c]
    ELSE c

\* s.lower()
Lower(s) == [n \in 1..Len(s) |-> LowerChar(s[n])]

\* s[a:] with a counted from 0
From(s, a) == SubSeq(s, a + 1, Len(s))

\* sub in s
Contains(s, sub) ==
    \E a \in 0..(Len(s) - Len(sub)) : SubSeq(s, a + 1, a + Len(sub)) = sub

\* s.startswith(p)
StartsWith(s, p) == Len(s) >= Len(p) /\ SubSeq(s, 1, Len(p)) = p

RECURSIVE Replace(_, _, _)
\* s.replace(old, new), old not empty: leftmost occurrences, not overlapping
Replace(s, old, new) ==
    IF Len(s) < Len(old) THEN s
    ELSE IF SubSeq(s, 1, Len(old)) = old
         THEN new \o Replace(From(s, Len(old)), old, new)
         ELSE <<Head(s)>> \o Replace(Tail(s), old, new)

RECURSIVE LStrip(_)
LStrip(s) == IF s # <<>> /\ IsSpace(Head(s)) THEN LStrip(Tail(s)) ELSE s

RECURSIVE RStripSet(_, _)
\* s.rstrip(chars)
RStripSet(s, chars) ==
    IF s # <<>> /\ s[Len(s)] \in chars
    THEN RStripSet(SubSeq(s, 1, Len(s) - 1), chars)
    ELSE s

\* s.strip()
Strip(s) == RStripSet(LStrip(s), WhiteSpace)

RECURSIVE Split(_, _)
\* s.split(c) for a one-character separator
Split(s, c) ==
    IF \E n \in 1..Len(s) : s[n] = c
    THEN LET n == CHOOSE m \in 1..Len(s) : s[m] = c /\ \A j \in 1..(m - 1) : s[j] # c
         IN <<SubSeq(s, 1, n - 1)>> \o Split(From(s, n), c)
    ELSE <<s>>

RECURSIVE DigitRun(_)
\* length of the longest prefix of digits: what \d+ and \d* consume
DigitRun(s) == IF s # <<>> /\ IsDigit(Head(s)) THEN 1 + DigitRun(Tail(s)) ELSE 0

RECURSIVE SpaceRun(_)
\* length of the longest prefix of white space: what \s* consumes
SpaceRun(s) == IF s # <<>> /\ IsSpace(Head(s)) THEN 1 + SpaceRun(Tail(s)) ELSE 0

\* s.isdigit()
IsDigitStr(s) == s # <<>> /\ \A n \in 1..Len(s) : IsDigit(s[n])

RECURSIVE DecVal(_)
\* int(s) for a string of decimal digits
DecVal(s) == IF s = <<>> THEN 0 ELSE 10 * DecVal(SubSeq(s, 1, Len(s) - 1)) + DigitVal(s[Len(s)])

\* int(s) succeeds: an optional sign and decimal digits, white space around
IntParses(s) ==
    LET t == Strip(s)
        u == IF t # <<>> /\ Head(t) \in {"+", "-"} THEN Tail(t) ELSE t
    IN IsDigitStr(u)

RECURSIVE StripZeros(_)
\* a string of digits without its leading zeros
StripZeros(s) == IF Len(s) > 1 /\ Head(s) = "0" THEN StripZeros(Tail(s)) ELSE s

\* int(s) where it succeeds, as the decimal numeral of the result: Python
\* integers are unbounded and a numeral holds any of them
IntOf(s) ==
    LET t == Strip(s)
        u == StripZeros(IF Head(t) \in {"+", "-"} THEN Tail(t) ELSE t)
    IN IF Head(t) = "-" /\ u # <<"0">> THEN <<"-">> \o u ELSE u

RECURSIVE NatStr(_)
\* str(n) for n >= 0
NatStr(n) == IF n < 10 THEN <<Digits[n + 1]>> ELSE NatStr(n \div 10) \o <<Digits[(n % 10) + 1]>>

\* str(n), f"{n}"
IntStr(n) == IF n < 0 THEN <<"-">> \o NatStr(0 - n) ELSE NatStr(n)

\* a Python int, held as its decimal numeral
IntLit(numeral) == [i |-> numeral]
IntV(n) == IntLit(IntStr(n))

(***************************************************************************)
(* XSDParser._parse_enum_values  (the documentation interpreter)           *)
(***************************************************************************)
\* string literals of xsd_parser.py
ParserLit ==
    [ s_default |-> <<"d", "e", "f", "a", "u", "l", "t">>,
      s_reserved |-> <<"r", "e", "s", "e", "r", "v", "e", "d">>,
      s_http |-> <<"h", "t", "t", "p">>,
      s_urn |-> <<"u", "r", "n", ":">>,
      s_https |-> <<"h", "t", "t", "p", "s", ":", "/", "/">>,
      s_colon |-> <<":">>,
      s_slash |-> <<"/">>,
      s_1 |-> <<"1">>,
      s_0 |-> <<"0">>,
      s_optional |-> <<"o", "p", "t", "i", "o", "n", "a", "l">>,
      s_required |-> <<"r", "e", "q", "u", "i", "r", "e", "d">>,
      s_unbounded |-> <<"u", "n", "b", "o", "u", "n", "d", "e", "d">> ]

TrailingPunct == {".", ",", ";"}
Separators == {"=", "-", ":"}

\* what is left of s after \s*
SkipSpace(s) == From(s, SpaceRun(s))

\* re.match(range_pattern, line) for a stripped line:
\*   ^(\d+)\s*-\s*(\d+)\s*:\s*(.+?)(?:\n|$)
\* <<>> when the line does not match, else <<group 1, group 2, group 3>>
range_match(line) ==
    LET Description(first, second, text) ==
            IF text = <<>> THEN <<>> ELSE <<first, second, text>>
        Colon(first, second, rest) ==
            IF rest = <<>> \/ Head(rest) # ":" THEN <<>>
            ELSE Description(first, second, SkipSpace(Tail(rest)))
        SecondDigits(first, rest, n2) ==
            IF n2 = 0 THEN <<>>
            ELSE Colon(first, SubSeq(rest, 1, n2), SkipSpace(From(rest, n2)))
        SecondNumber(first, rest) == SecondDigits(first, rest, DigitRun(rest))
        Dash(first, rest) ==
            IF rest = <<>> \/ Head(rest) # "-" THEN <<>>
            ELSE SecondNumber(first, SkipSpace(Tail(rest)))
        FirstDigits(n1) ==
            IF n1 = 0 THEN <<>>
            ELSE Dash(SubSeq(line, 1, n1), SkipSpace(From(line, n1)))
    IN FirstDigits(DigitRun(line))

\* re.match(pattern, line) for a stripped line:
\*   ^(\d+)\s*([=\-:])\s*(.+?)(?:\n|$)
\* <<>> when the line does not match, else <<group 1, group 2, group 3>>
value_match(line) ==
    LET Description(first, separator, text) ==
            IF text = <<>> THEN <<>> ELSE <<first, separator, text>>
        Separator(first, rest) ==
            IF rest = <<>> \/ Head(rest) \notin Separators THEN <<>>
            ELSE Description(first, <<Head(rest)>>, SkipSpace(Tail(rest)))
        FirstDigits(n1) ==
            IF n1 = 0 THEN <<>>
            ELSE Separator(SubSeq(line, 1, n1), SkipSpace(From(line, n1)))
    IN FirstDigits(DigitRun(line))

\* length of the match of  \s*\([^)]*default[^)]*\)  (IGNORECASE) at the
\* start of s, 0 when there is none: white space, "(", and up to the first
\* ")" a text that holds the word
DefaultParenAt(s) ==
    LET Closed(k, r, e) ==
            IF Contains(Lower(SubSeq(r, 2, e - 1)), ParserLit.s_default) THEN k + e ELSE 0
        Opened(k, r) ==
            IF r = <<>> \/ Head(r) # "(" THEN 0
            ELSE IF ~ \E e \in 2..Len(r) : r[e] = ")" THEN 0
            ELSE Closed(k, r, CHOOSE m \in 2..Len(r) :
                                  r[m] = ")" /\ \A j \in 2..(m - 1) : r[j] # ")")
    IN Opened(SpaceRun(s), SkipSpace(s))

RECURSIVE SubDefaultParen(_)
\* re.sub(r'\s*\([^)]*default[^)]*\)', '', s, flags=re.IGNORECASE)
SubDefaultParen(s) ==
    LET Sub(n) == IF n > 0 THEN SubDefaultParen(From(s, n))
                  ELSE <<Head(s)>> \o SubDefaultParen(Tail(s))
    IN IF s = <<>> THEN <<>> ELSE Sub(DefaultParenAt(s))

\* the clean-up of a description: rstrip('.,;'), then the re.sub, then strip()
CleanDescription(text) == Strip(SubDefaultParen(RStripSet(text, TrailingPunct)))

\* the line is skipped as reserved: the word and no digit
IsReservedLine(line) ==
    Contains(Lower(line), ParserLit.s_reserved) /\ ~ \E n \in 1..Len(line) : IsDigit(line[n])

\* range_info.append({...}) for a match of the range pattern
AppendRange(acc, rm) ==
    [acc EXCEPT !.ranges = Append(@, [start |-> DecVal(rm[1]),
                                      end |-> DecVal(rm[2]),
                                      description |-> StrV(CleanDescription(Strip(rm[3])))])]

\* enum_values[value] = description for a match of the single-value pattern
SetValue(acc, vm) ==
    [acc EXCEPT !.values = DictSet(@, StrV(vm[1]), StrV(CleanDescription(Strip(vm[3]))))]

\* the loop's turn with the two tests exchanged: the single-value pattern is
\* tried before the range pattern
ParseEnumLineValueFirst(acc, raw) ==
    LET Turn(line, rm, vm) ==
            IF line = <<>> THEN acc
            ELSE IF IsReservedLine(line) THEN acc
            ELSE IF vm # <<>> THEN SetValue(acc, vm)
            ELSE IF rm # <<>> THEN AppendRange(acc, rm)
            ELSE acc
    IN Turn(Strip(raw), range_match(Strip(raw)), value_match(Strip(raw)))

\* one turn of the loop over the lines; acc = [values, ranges]
ParseEnumLine(acc, raw) ==
    LET Turn(line, rm, vm) ==
            IF line = <<>> THEN acc
            ELSE IF rm # <<>> THEN AppendRange(acc, rm)
            ELSE IF IsReservedLine(line) THEN acc
            ELSE IF vm # <<>> THEN SetValue(acc, vm)
            ELSE acc
    IN Turn(Strip(raw), range_match(Strip(raw)), value_match(Strip(raw)))

RECURSIVE ParseEnumLines(_, _)
ParseEnumLines(acc, lines) ==
    IF lines = <<>> THEN acc
    ELSE ParseEnumLines(ParseEnumLine(acc, Head(lines)), Tail(lines))

\* _parse_enum_values(doc_text) = <<enum_values or None, range_info or None>>
parse_enum_values(doc_text) ==
    LET Result(acc) ==
            <<IF acc.values # <<>> THEN DictV(acc.values) ELSE NoneV,
              IF acc.ranges # <<>> THEN ListV(acc.ranges) ELSE NoneV>>
    IN IF ~ Truthy(doc_text) THEN <<NoneV, NoneV>>
       ELSE Result(ParseEnumLines([values |-> <<>>, ranges |-> <<>>], Split(doc_text.s, "\n")))

(***************************************************************************)
(* The XSD document: the element tree that xml.etree hands to the parser.  *)
(* A node is [tag, attrs, text, tail, kids]; an attribute that is absent   *)
(* is None, as elem.get(name) answers.                                     *)
(***************************************************************************)
NoAttrs == [name |-> NoneV, type |-> NoneV, base |-> NoneV, value |-> NoneV,
            minOccurs |-> NoneV, maxOccurs |-> NoneV, use |-> NoneV,
            default |-> NoneV, targetNamespace |-> NoneV]

Node(tag, attrs, kids) == [tag |-> tag, attrs |-> attrs, text |-> NoneV, tail |-> NoneV, kids |-> kids]
TextNode(tag, text) == [tag |-> tag, attrs |-> NoAttrs, text |-> text, tail |-> NoneV, kids |-> <<>>]

\* elem.get(name, default)
GetOr(v, default) == IF IsNone(v) THEN default ELSE v

RECURSIVE Descendants(_)
RECURSIVE DescendantsOf(_)
\* the nodes below n in document order: what n.findall('.//*') lists
Descendants(n) == DescendantsOf(n.kids)
DescendantsOf(kids) ==
    IF kids = <<>> THEN <<>>
    ELSE <<Head(kids)>> \o Descendants(Head(kids)) \o DescendantsOf(Tail(kids))

\* n.findall('.//{xs}tag')
FindAll(n, tag) == SelectSeq(Descendants(n), LAMBDA m : m.tag = tag)

\* n.find('.//{xs}tag') is not None
HasDescendant(n, tag) == FindAll(n, tag) # <<>>

\* n.find('.//{xs}tag') where there is one
Find(n, tag) == Head(FindAll(n, tag))

(***************************************************************************)
(* XSDParser                                                               *)
(***************************************************************************)
DefaultBaseUri == <<"h", "t", "t", "p", "s", ":", "/", "/", "s", "c", "h", "e", "m", "a", "s", ".", "i", "e", "e", "e", ".", "o", "r", "g", "/", "2", "0", "3", "0", ".", "5", "/">>

\* the enum data of _extract_documentation when it is a tuple
TupleV(a, b) == [t |-> <<a, b>>]
IsTuple(v) == "t" \in DOMAIN v

\* XSDParser.__init__(base_uri)
XSDParser_init(base_uri) ==
    [base_uri |-> PyOr(base_uri, StrV(DefaultBaseUri)),
     types |-> <<>>,
     elements |-> <<>>,
     attributes |-> <<>>,
     namespace |-> NoneV,
     target_namespace |-> NoneV]

\* annotation.find('.//documentation') for the first <annotation> below elem,
\* as the list of what was found: <<>> when either find answers None
FindDocumentation(elem) ==
    LET Below(annotations) ==
            IF annotations = <<>> THEN <<>> ELSE FindAll(Head(annotations), "documentation")
    IN Below(FindAll(elem, "annotation"))

\* doc_text: doc_elem.text or '', and the tail when there is one
DocText(doc_elem) ==
    (IF Truthy(doc_elem.text) THEN doc_elem.text.s ELSE <<>>)
        \o (IF Truthy(doc_elem.tail) THEN doc_elem.tail.s ELSE <<>>)

\* _extract_documentation(elem) = <<documentation or None, enum data or None>>
extract_documentation(elem) ==
    LET Result(found, doc, parsed) ==
            IF found = <<>> THEN <<NoneV, NoneV>>
            ELSE IF Truthy(parsed[1]) \/ Truthy(parsed[2])
            THEN <<IF doc # <<>> THEN StrV(doc) ELSE NoneV, TupleV(parsed[1], parsed[2])>>
            ELSE <<IF doc # <<>> THEN StrV(doc) ELSE NoneV, NoneV>>
    IN Result(FindDocumentation(elem),
              Strip(DocText(Head(FindDocumentation(elem)))),
              parse_enum_values(StrV(DocText(Head(FindDocumentation(elem))))))

\* the elem_info built for an <element>
ElemInfo(elem) ==
    LET Info(ed) ==
            [name |-> elem.attrs.name,
             type |-> elem.attrs.type,
             minOccurs |-> GetOr(elem.attrs.minOccurs, StrV(ParserLit.s_1)),
             maxOccurs |-> GetOr(elem.attrs.maxOccurs, StrV(ParserLit.s_1)),
             documentation |-> IF Truthy(ed[1]) THEN ed[1] ELSE NoneV,
             enum_values |-> IF IsTuple(ed[2]) THEN ed[2].t[1] ELSE NoneV,
             enum_ranges |-> IF IsTuple(ed[2]) THEN ed[2].t[2] ELSE NoneV]
    IN Info(extract_documentation(elem))

\* the attr_info built for an <attribute>
AttrInfo(attr) ==
    LET Info(ad) ==
            [name |-> attr.attrs.name,
             type |-> attr.attrs.type,
             use |-> GetOr(attr.attrs.use, StrV(ParserLit.s_optional)),
             default |-> attr.attrs.default,
             documentation |-> IF Truthy(ad[1]) THEN ad[1] ELSE NoneV]
    IN Info(extract_documentation(attr))

\* enum_values[value] = enum_doc if enum_doc else value, for a facet with a value
AddFacet(enum_values, value, enum_doc) ==
    LET Set(ev) ==
            IF Truthy(value)
            THEN DictV(DictSet(ev.d, value, IF Truthy(enum_doc) THEN enum_doc ELSE value))
            ELSE ev
    IN Set(IF IsNone(enum_values) THEN DictV(<<>>) ELSE enum_values)

RECURSIVE AddFacets(_, _)
\* the loop over the <enumeration> facets of the restriction
AddFacets(enum_values, facets) ==
    IF facets = <<>> THEN enum_values
    ELSE AddFacets(AddFacet(enum_values, Head(facets).attrs.value,
                            extract_documentation(Head(facets))[1]),
                   Tail(facets))

\* the elements and the attributes of the type
ElemInfos(elems) == [n \in 1..Len(elems) |-> ElemInfo(elems[n])]
AttrInfos(attrs) == [n \in 1..Len(attrs) |-> AttrInfo(attrs[n])]

\* _extract_type_info(type_elem)
extract_type_info(type_elem) ==
    LET Info(td, extension, restriction, elements, enum_values) ==
            [elements |-> elements,
             attributes |-> AttrInfos(FindAll(type_elem, "attribute")),
             base |-> IF extension # <<>> THEN Head(extension).attrs.base ELSE NoneV,
             restriction |-> IF restriction # <<>> THEN Head(restriction).attrs.base ELSE NoneV,
             documentation |-> td[1],
             enum_values |-> enum_values,
             enum_ranges |-> IF IsTuple(td[2]) THEN td[2].t[2] ELSE NoneV]
        DocValues(td) == IF IsTuple(td[2]) THEN td[2].t[1] ELSE td[2]
    IN Info(extract_documentation(type_elem),
            FindAll(type_elem, "extension"),
            FindAll(type_elem, "restriction"),
            ElemInfos(IF FindAll(type_elem, "extension") # <<>>
                      THEN FindAll(Head(FindAll(type_elem, "extension")), "element")
                      ELSE FindAll(type_elem, "element")),
            IF FindAll(type_elem, "restriction") # <<>>
            THEN AddFacets(DocValues(extract_documentation(type_elem)),
                           FindAll(Head(FindAll(type_elem, "restriction")), "enumeration"))
            ELSE DocValues(extract_documentation(type_elem)))

RECURSIVE AddTypes(_, _)
\* self.types[name] = self._extract_type_info(t) for the named declarations
AddTypes(types, decls) ==
    IF decls = <<>> THEN types
    ELSE AddTypes(IF Truthy(Head(decls).attrs.name)
                  THEN DictSet(types, Head(decls).attrs.name, extract_type_info(Head(decls)))
                  ELSE types,
                  Tail(decls))

RECURSIVE AddElements(_, _)
\* self.elements[name] = {...} for the named <element> declarations
AddElements(elements, decls) ==
    LET Turn(decl) ==
            AddElements(IF Truthy(decl.attrs.name)
                        THEN DictSet(elements, decl.attrs.name,
                                     [type |-> decl.attrs.type,
                                      minOccurs |-> GetOr(decl.attrs.minOccurs, StrV(ParserLit.s_1)),
                                      maxOccurs |-> GetOr(decl.attrs.maxOccurs, StrV(ParserLit.s_1))])
                        ELSE elements,
                        Tail(decls))
    IN IF decls = <<>> THEN elements ELSE Turn(Head(decls))

\* XSDParser.parse(xsd_file) on the parser self, root the document's root
parse(self, root) ==
    [self EXCEPT !.namespace = root.attrs.targetNamespace,
                 !.target_namespace = IF Truthy(root.attrs.targetNamespace)
                                      THEN root.attrs.targetNamespace ELSE @,
                 !.base_uri = IF Truthy(root.attrs.targetNamespace)
                                  /\ ~ StartsWith(@.s, ParserLit.s_http)
                              THEN StrV(Replace(Replace(root.attrs.targetNamespace.s,
                                                        ParserLit.s_urn, ParserLit.s_https),
                                                ParserLit.s_colon, ParserLit.s_slash))
                              ELSE @,
                 !.types = AddTypes(@, FindAll(root, "complexType") \o FindAll(root, "simpleType")),
                 !.elements = AddElements(@, FindAll(root, "element"))]

\* string literals of the context and schema renderers
ContextLit ==
    [ s_xs_ |-> <<"x", "s", ":">>,
      s_xsd |-> <<"x", "s", "d">>,
      uri_xsd |-> <<"h", "t", "t", "p", ":", "/", "/", "w", "w", "w", ".", "w", "3", ".", "o", "r", "g", "/", "2", "0", "0", "1", "/", "X", "M", "L", "S", "c", "h", "e", "m", "a", "#">>,
      s_rdf |-> <<"r", "d", "f">>,
      uri_rdf |-> <<"h", "t", "t", "p", ":", "/", "/", "w", "w", "w", ".", "w", "3", ".", "o", "r", "g", "/", "1", "9", "9", "9", "/", "0", "2", "/", "2", "2", "-", "r", "d", "f", "-", "s", "y", "n", "t", "a", "x", "-", "n", "s", "#">>,
      s_rdfs |-> <<"r", "d", "f", "s">>,
      uri_rdfs |-> <<"h", "t", "t", "p", ":", "/", "/", "w", "w", "w", ".", "w", "3", ".", "o", "r", "g", "/", "2", "0", "0", "0", "/", "0", "1", "/", "r", "d", "f", "-", "s", "c", "h", "e", "m", "a", "#">>,
      s_owl |-> <<"o", "w", "l">>,
      uri_owl |-> <<"h", "t", "t", "p", ":", "/", "/", "w", "w", "w", ".", "w", "3", ".", "o", "r", "g", "/", "2", "0", "0", "2", "/", "0", "7", "/", "o", "w", "l", "#">>,
      s_string |-> <<"s", "t", "r", "i", "n", "g">>,
      s_xsd_string |-> <<"x", "s", "d", ":", "s", "t", "r", "i", "n", "g">>,
      s_int |-> <<"i", "n", "t">>,
      s_xsd_int |-> <<"x", "s", "d", ":", "i", "n", "t">>,
      s_long |-> <<"l", "o", "n", "g">>,
      s_xsd_long |-> <<"x", "s", "d", ":", "l", "o", "n", "g">>,
      s_boolean |-> <<"b", "o", "o", "l", "e", "a", "n">>,
      s_xsd_boolean |-> <<"x", "s", "d", ":", "b", "o", "o", "l", "e", "a", "n">>,
      s_unsignedByte |-> <<"u", "n", "s", "i", "g", "n", "e", "d", "B", "y", "t", "e">>,
      s_xsd_unsignedByte |-> <<"x", "s", "d", ":", "u", "n", "s", "i", "g", "n", "e", "d", "B", "y", "t", "e">>,
      s_unsignedShort |-> <<"u", "n", "s", "i", "g", "n", "e", "d", "S", "h", "o", "r", "t">>,
      s_xsd_unsignedShort |-> <<"x", "s", "d", ":", "u", "n", "s", "i", "g", "n", "e", "d", "S", "h", "o", "r", "t">>,
      s_unsignedInt |-> <<"u", "n", "s", "i", "g", "n", "e", "d", "I", "n", "t">>,
      s_xsd_unsignedInt |-> <<"x", "s", "d", ":", "u", "n", "s", "i", "g", "n", "e", "d", "I", "n", "t">>,
      s_unsignedLong |-> <<"u", "n", "s", "i", "g", "n", "e", "d", "L", "o", "n", "g">>,
      s_xsd_unsignedLong |-> <<"x", "s", "d", ":", "u", "n", "s", "i", "g", "n", "e", "d", "L", "o", "n", "g">>,
      s_byte |-> <<"b", "y", "t", "e">>,
      s_xsd_byte |-> <<"x", "s", "d", ":", "b", "y", "t", "e">>,
      s_short |-> <<"s", "h", "o", "r", "t">>,
      s_xsd_short |-> <<"x", "s", "d", ":", "s", "h", "o", "r", "t">>,
      s_anyURI |-> <<"a", "n", "y", "U", "R", "I">>,
      s_xsd_anyURI |-> <<"x", "s", "d", ":", "a", "n", "y", "U", "R", "I">>,
      s_hexBinary |-> <<"h", "e", "x", "B", "i", "n", "a", "r", "y">>,
      s_xsd_hexBinary |-> <<"x", "s", "d", ":", "h", "e", "x", "B", "i", "n", "a", "r", "y">>,
      s_at_vocab |-> <<"@", "v", "o", "c", "a", "b">>,
      s_at_id |-> <<"@", "i", "d">>,
      s_at_context |-> <<"@", "c", "o", "n", "t", "e", "x", "t">>,
      s_at_shacl |-> <<"@", "s", "h", "a", "c", "l">>,
      s_at_type |-> <<"@", "t", "y", "p", "e">>,
      s_rdfs_Class |-> <<"r", "d", "f", "s", ":", "C", "l", "a", "s", "s">>,
      s_rdfs_comment |-> <<"r", "d", "f", "s", ":", "c", "o", "m", "m", "e", "n", "t">>,
      s_rdfs_subClassOf |-> <<"r", "d", "f", "s", ":", "s", "u", "b", "C", "l", "a", "s", "s", "O", "f">>,
      s_at_enum |-> <<"@", "e", "n", "u", "m">>,
      s_at_graph |-> <<"@", "g", "r", "a", "p", "h">> ]

(***************************************************************************)
(* XSDGenerator: the context and the RDF schema renderers                  *)
(***************************************************************************)
RECURSIVE FoldL(_, _, _)
\* a for loop over the sequence s that carries acc
FoldL(Op(_, _), acc, s) == IF s = <<>> THEN acc ELSE FoldL(Op, Op(acc, Head(s)), Tail(s))

\* XSDGenerator.__init__(parser)
XSDGenerator_init(parser) ==
    [base_uri |-> parser.base_uri, types |-> parser.types, elements |-> parser.elements]

\* t.replace('xs:', '')
CleanType(t) == Replace(t, ContextLit.s_xs_, <<>>)

\* the fixed namespace prefixes of a context
PrefixItems == <<Item(StrV(ContextLit.s_xsd), StrV(ContextLit.uri_xsd)),
                 Item(StrV(ContextLit.s_rdf), StrV(ContextLit.uri_rdf)),
                 Item(StrV(ContextLit.s_rdfs), StrV(ContextLit.uri_rdfs)),
                 Item(StrV(ContextLit.s_owl), StrV(ContextLit.uri_owl))>>

\* xsd_types of generate_jsonld_context
xsd_types == <<Item(StrV(ContextLit.s_string), StrV(ContextLit.s_xsd_string)),
               Item(StrV(ContextLit.s_int), StrV(ContextLit.s_xsd_int)),
               Item(StrV(ContextLit.s_long), StrV(ContextLit.s_xsd_long)),
               Item(StrV(ContextLit.s_boolean), StrV(ContextLit.s_xsd_boolean)),
               Item(StrV(ContextLit.s_unsignedByte), StrV(ContextLit.s_xsd_unsignedByte)),
               Item(StrV(ContextLit.s_unsignedShort), StrV(ContextLit.s_xsd_unsignedShort)),
               Item(StrV(ContextLit.s_unsignedInt), StrV(ContextLit.s_xsd_unsignedInt)),
               Item(StrV(ContextLit.s_unsignedLong), StrV(ContextLit.s_xsd_unsignedLong)),
               Item(StrV(ContextLit.s_byte), StrV(ContextLit.s_xsd_byte)),
               Item(StrV(ContextLit.s_short), StrV(ContextLit.s_xsd_short)),
               Item(StrV(ContextLit.s_anyURI), StrV(ContextLit.s_xsd_anyURI)),
               Item(StrV(ContextLit.s_hexBinary), StrV(ContextLit.s_xsd_hexBinary))>>

\* the property names that properties_by_type lists for a type: its
\* elements, then its attributes
PropertyNames(type_info) ==
    [n \in 1..Len(type_info.elements) |-> type_info.elements[n].name]
    \o [n \in 1..Len(type_info.attributes) |-> type_info.attributes[n].name]

\* context["@context"][term] = value unless the term is there
AddTerm(ctx, term, value) == IF DictHas(ctx, term) THEN ctx ELSE DictSet(ctx, term, value)

\* the loop over properties_by_type: a term for every property name of the type
AddPropertyTerms(ctx, type_info) ==
    FoldL(LAMBDA c, prop_name : AddTerm(c, prop_name, StrV(ContextLit.s_at_id)),
          ctx, PropertyNames(type_info))

\* a context whose property terms also wait for include_docs
generate_jsonld_context_documented(self, include_docs, include_enums, include_schema, shacl_file_url) ==
    DictV(<<Item(StrV(ContextLit.s_at_context),
                 DictV(FoldL(LAMBDA c, x : AddTerm(c, x.k, x.v),
                             FoldL(LAMBDA c, e : AddTerm(c, e.k, StrV(ContextLit.s_at_id)),
                                   FoldL(LAMBDA c, t : AddPropertyTerms(c, t.v),
                                         FoldL(LAMBDA c, t : DictSet(c, t.k, StrV(ContextLit.s_at_id)),
                                               <<Item(StrV(ContextLit.s_at_vocab), self.base_uri)>> \o PrefixItems,
                                               self.types),
                                         IF include_schema /\ include_docs THEN self.types ELSE <<>>),
                                   self.elements),
                             xsd_types)))>>
          \o IF Truthy(shacl_file_url) THEN <<Item(StrV(ContextLit.s_at_shacl), shacl_file_url)>> ELSE <<>>)

\* XSDGenerator.generate_jsonld_context
generate_jsonld_context(self, include_docs, include_enums, include_schema, shacl_file_url) ==
    DictV(<<Item(StrV(ContextLit.s_at_context),
                 DictV(FoldL(LAMBDA c, x : AddTerm(c, x.k, x.v),
                             FoldL(LAMBDA c, e : AddTerm(c, e.k, StrV(ContextLit.s_at_id)),
                                   FoldL(LAMBDA c, t : AddPropertyTerms(c, t.v),
                                         FoldL(LAMBDA c, t : DictSet(c, t.k, StrV(ContextLit.s_at_id)),
                                               <<Item(StrV(ContextLit.s_at_vocab), self.base_uri)>> \o PrefixItems,
                                               self.types),
                                         IF include_schema THEN self.types ELSE <<>>),
                                   self.elements),
                             xsd_types)))>>
          \o IF Truthy(shacl_file_url) THEN <<Item(StrV(ContextLit.s_at_shacl), shacl_file_url)>> ELSE <<>>)

\* a class node that names every base as its superclass
ClassNodeOfAnyBase(self, uri, type_name, type_info, include_docs, include_enums) ==
    DictV(<<Item(StrV(ContextLit.s_at_id), StrV(uri \o type_name.s)),
            Item(StrV(ContextLit.s_at_type), StrV(ContextLit.s_rdfs_Class))>>
          \o (IF include_docs /\ Truthy(type_info.documentation)
              THEN <<Item(StrV(ContextLit.s_rdfs_comment), type_info.documentation)>> ELSE <<>>)
          \o (IF Truthy(type_info.base)
              THEN <<Item(StrV(ContextLit.s_rdfs_subClassOf),
                          DictV(<<Item(StrV(ContextLit.s_at_id), StrV(uri \o CleanType(type_info.base.s)))>>))>>
              ELSE <<>>)
          \o (IF include_enums /\ Truthy(type_info.enum_values)
              THEN <<Item(StrV(ContextLit.s_at_enum), type_info.enum_values)>> ELSE <<>>))

\* the rdfs:Class node of a type; uri is the prefix of its @id
ClassNode(self, uri, type_name, type_info, include_docs, include_enums) ==
    DictV(<<Item(StrV(ContextLit.s_at_id), StrV(uri \o type_name.s)),
            Item(StrV(ContextLit.s_at_type), StrV(ContextLit.s_rdfs_Class))>>
          \o (IF include_docs /\ Truthy(type_info.documentation)
              THEN <<Item(StrV(ContextLit.s_rdfs_comment), type_info.documentation)>> ELSE <<>>)
          \o (IF Truthy(type_info.base) /\ DictHas(self.types, StrV(CleanType(type_info.base.s)))
              THEN <<Item(StrV(ContextLit.s_rdfs_subClassOf),
                          DictV(<<Item(StrV(ContextLit.s_at_id), StrV(uri \o CleanType(type_info.base.s)))>>))>>
              ELSE <<>>)
          \o (IF include_enums /\ Truthy(type_info.enum_values)
              THEN <<Item(StrV(ContextLit.s_at_enum), type_info.enum_values)>> ELSE <<>>))

\* XSDGenerator.generate_jsonld_schema
generate_jsonld_schema(self, include_docs, include_enums) ==
    DictV(<<Item(StrV(ContextLit.s_at_context), DictV(<<Item(StrV(ContextLit.s_at_vocab), self.base_uri)>> \o PrefixItems)),
            Item(StrV(ContextLit.s_at_graph),
                 ListV([n \in 1..Len(self.types) |->
                           ClassNode(self, self.base_uri.s, self.types[n].k, self.types[n].v,
                                     include_docs, include_enums)]))>>)

\* string literals of the SHACL renderer
ShaclLit ==
    [ s_Int8 |-> <<"I", "n", "t", "8">>,
      s_Int16 |-> <<"I", "n", "t", "1", "6">>,
      s_Int32 |-> <<"I", "n", "t", "3", "2">>,
      s_Int48 |-> <<"I", "n", "t", "4", "8">>,
      s_Int64 |-> <<"I", "n", "t", "6", "4">>,
      s_UInt8 |-> <<"U", "I", "n", "t", "8">>,
      s_UInt16 |-> <<"U", "I", "n", "t", "1", "6">>,
      s_UInt32 |-> <<"U", "I", "n", "t", "3", "2">>,
      s_UInt40 |-> <<"U", "I", "n", "t", "4", "0">>,
      s_UInt48 |-> <<"U", "I", "n", "t", "4", "8">>,
      s_UInt64 |-> <<"U", "I", "n", "t", "6", "4">>,
      s_xsd_integer |-> <<"x", "s", "d", ":", "i", "n", "t", "e", "g", "e", "r">>,
      s_sh_datatype |-> <<"s", "h", ":", "d", "a", "t", "a", "t", "y", "p", "e">>,
      s_sh_node |-> <<"s", "h", ":", "n", "o", "d", "e">>,
      s_Shape |-> <<"S", "h", "a", "p", "e">>,
      s_Int |-> <<"I", "n", "t">>,
      s_UInt |-> <<"U", "I", "n", "t">>,
      s_String |-> <<"S", "t", "r", "i", "n", "g">>,
      s_sh_path |-> <<"s", "h", ":", "p", "a", "t", "h">>,
      s_sh_in |-> <<"s", "h", ":", "i", "n">>,
      s_sh_minCount |-> <<"s", "h", ":", "m", "i", "n", "C", "o", "u", "n", "t">>,
      s_sh_maxCount |-> <<"s", "h", ":", "m", "a", "x", "C", "o", "u", "n", "t">>,
      s_sh_minInclusive |-> <<"s", "h", ":", "m", "i", "n", "I", "n", "c", "l", "u", "s", "i", "v", "e">>,
      s_sh_maxInclusive |-> <<"s", "h", ":", "m", "a", "x", "I", "n", "c", "l", "u", "s", "i", "v", "e">>,
      s_sh_defaultValue |-> <<"s", "h", ":", "d", "e", "f", "a", "u", "l", "t", "V", "a", "l", "u", "e">>,
      s_sh_NodeShape |-> <<"s", "h", ":", "N", "o", "d", "e", "S", "h", "a", "p", "e">>,
      s_sh_targetClass |-> <<"s", "h", ":", "t", "a", "r", "g", "e", "t", "C", "l", "a", "s", "s">>,
      s_sh_property |-> <<"s", "h", ":", "p", "r", "o", "p", "e", "r", "t", "y">>,
      s_rdf_Property |-> <<"r", "d", "f", ":", "P", "r", "o", "p", "e", "r", "t", "y">>,
      s_rdfs_domain |-> <<"r", "d", "f", "s", ":", "d", "o", "m", "a", "i", "n">>,
      s_rdfs_range |-> <<"r", "d", "f", "s", ":", "r", "a", "n", "g", "e">>,
      s_xsd_ |-> <<"x", "s", "d", ":">>,
      s_owl_minCardinality |-> <<"o", "w", "l", ":", "m", "i", "n", "C", "a", "r", "d", "i", "n", "a", "l", "i", "t", "y">>,
      s_owl_maxCardinality |-> <<"o", "w", "l", ":", "m", "a", "x", "C", "a", "r", "d", "i", "n", "a", "l", "i", "t", "y">>,
      s_sh |-> <<"s", "h">>,
      uri_sh |-> <<"h", "t", "t", "p", ":", "/", "/", "w", "w", "w", ".", "w", "3", ".", "o", "r", "g", "/", "n", "s", "/", "s", "h", "a", "c", "l", "#">>,
      n_255 |-> <<"2", "5", "5">>,
      n_65535 |-> <<"6", "5", "5", "3", "5">>,
      n_4294967295 |-> <<"4", "2", "9", "4", "9", "6", "7", "2", "9", "5">> ]

(***************************************************************************)
(* XSDGenerator: the SHACL renderer                                        *)
(***************************************************************************)
\* what a renderer leaves behind when an exception escapes it
ExcV(name) == [exc |-> name]
IsExc(v) == "exc" \in DOMAIN v

\* numeric_types of _create_property_shape
numeric_types == {ShaclLit.s_Int8, ShaclLit.s_Int16, ShaclLit.s_Int32, ShaclLit.s_Int48, ShaclLit.s_Int64,
                  ShaclLit.s_UInt8, ShaclLit.s_UInt16, ShaclLit.s_UInt32, ShaclLit.s_UInt40, ShaclLit.s_UInt48, ShaclLit.s_UInt64,
                  ContextLit.s_int, ContextLit.s_long, ContextLit.s_unsignedByte, ContextLit.s_unsignedShort,
                  ContextLit.s_unsignedInt, ContextLit.s_unsignedLong, ContextLit.s_byte, ContextLit.s_short}

\* xsd_type_map of _create_property_shape
xsd_type_map == <<Item(StrV(ContextLit.s_string), StrV(ContextLit.s_xsd_string)),
                  Item(StrV(ContextLit.s_int), StrV(ShaclLit.s_xsd_integer)),
                  Item(StrV(ContextLit.s_long), StrV(ContextLit.s_xsd_long)),
                  Item(StrV(ContextLit.s_boolean), StrV(ContextLit.s_xsd_boolean)),
                  Item(StrV(ContextLit.s_unsignedByte), StrV(ContextLit.s_xsd_unsignedByte)),
                  Item(StrV(ContextLit.s_unsignedShort), StrV(ContextLit.s_xsd_unsignedShort)),
                  Item(StrV(ContextLit.s_unsignedInt), StrV(ContextLit.s_xsd_unsignedInt)),
                  Item(StrV(ContextLit.s_unsignedLong), StrV(ContextLit.s_xsd_unsignedLong)),
                  Item(StrV(ContextLit.s_byte), StrV(ContextLit.s_xsd_byte)),
                  Item(StrV(ContextLit.s_short), StrV(ContextLit.s_xsd_short)),
                  Item(StrV(ContextLit.s_anyURI), StrV(ContextLit.s_xsd_anyURI)),
                  Item(StrV(ContextLit.s_hexBinary), StrV(ContextLit.s_xsd_hexBinary))>>

\* type_info.get('base') or type_info.get('restriction')
BaseOrRestriction(type_info) == PyOr(type_info.base, type_info.restriction)

\* prop_type.replace('xs:', '') if prop_type else ''
PropTypeClean(prop_type) == IF Truthy(prop_type) THEN CleanType(prop_type.s) ELSE <<>>

\* is_numeric of _create_property_shape
ShapeIsNumeric(self, prop_type_clean) ==
    LET OfBase(base_type) == Truthy(base_type) /\ CleanType(base_type.s) \in numeric_types
    IN IF prop_type_clean \in numeric_types THEN TRUE
       ELSE IF DictHas(self.types, StrV(prop_type_clean))
       THEN OfBase(BaseOrRestriction(DictAt(self.types, StrV(prop_type_clean))))
       ELSE FALSE

\* the list built from the keys of enum_values: int(key) where the property
\* is numeric and the key parses, else the key
EnumList(enum_values, is_numeric) ==
    [n \in 1..Len(enum_values.d) |->
        IF is_numeric /\ IntParses(enum_values.d[n].k.s)
        THEN IntLit(IntOf(enum_values.d[n].k.s))
        ELSE enum_values.d[n].k]

\* int(x) if x.isdigit() else otherwise
DigitsOr(x, otherwise) == IF IsDigitStr(x.s) THEN DecVal(x.s) ELSE otherwise


\* base_type_for_constraints: the base or restriction of a registry type
\* that has one, else the type name itself
BaseTypeForConstraints(self, prop_type_clean) ==
    IF DictHas(self.types, StrV(prop_type_clean))
       /\ Truthy(BaseOrRestriction(DictAt(self.types, StrV(prop_type_clean))))
    THEN CleanType(BaseOrRestriction(DictAt(self.types, StrV(prop_type_clean))).s)
    ELSE prop_type_clean

\* the bounds looked up by the UInt names alone, the XSD primitive names
\* (unsignedByte, unsignedShort, unsignedInt) left out
UnsignedMaxOfUIntNames(b) ==
    IF Contains(b, ShaclLit.s_UInt8) THEN ShaclLit.n_255
    ELSE IF Contains(b, ShaclLit.s_UInt16) THEN ShaclLit.n_65535
    ELSE IF Contains(b, ShaclLit.s_UInt32) THEN ShaclLit.n_4294967295
    ELSE <<>>

\* the inclusive upper bound of the unsigned family of b, as a numeral;
\* <<>> for no bound
UnsignedMax(b) ==
    IF Contains(b, ShaclLit.s_UInt8) \/ b = ContextLit.s_unsignedByte THEN ShaclLit.n_255
    ELSE IF Contains(b, ShaclLit.s_UInt16) \/ b = ContextLit.s_unsignedShort THEN ShaclLit.n_65535
    ELSE IF Contains(b, ShaclLit.s_UInt32) \/ b = ContextLit.s_unsignedInt THEN ShaclLit.n_4294967295
    ELSE <<>>

\* the sh:datatype of a registry type without elements or attributes, from
\* its base or restriction
BaseDatatype(base_type) ==
    IF ~ Truthy(base_type) THEN <<>>
    ELSE IF DictHas(xsd_type_map, StrV(CleanType(base_type.s)))
    THEN <<Item(StrV(ShaclLit.s_sh_datatype), DictAt(xsd_type_map, StrV(CleanType(base_type.s))))>>
    ELSE IF Contains(CleanType(base_type.s), ShaclLit.s_Int)
            \/ Contains(CleanType(base_type.s), ShaclLit.s_UInt)
    THEN <<Item(StrV(ShaclLit.s_sh_datatype), StrV(ShaclLit.s_xsd_integer))>>
    ELSE <<Item(StrV(ShaclLit.s_sh_datatype), StrV(ContextLit.s_xsd_string))>>

\* the sh:datatype or sh:node items for the cleaned type name c
DatatypeItems(self, c) ==
    IF DictHas(xsd_type_map, StrV(c))
    THEN <<Item(StrV(ShaclLit.s_sh_datatype), DictAt(xsd_type_map, StrV(c)))>>
    ELSE IF DictHas(self.types, StrV(c))
    THEN IF DictAt(self.types, StrV(c)).elements # <<>>
            \/ DictAt(self.types, StrV(c)).attributes # <<>>
         THEN <<Item(StrV(ShaclLit.s_sh_node),
                     DictV(<<Item(StrV(ContextLit.s_at_id), StrV(c \o ShaclLit.s_Shape))>>))>>
         ELSE BaseDatatype(BaseOrRestriction(DictAt(self.types, StrV(c))))
    ELSE IF Contains(c, ShaclLit.s_Int) \/ Contains(c, ShaclLit.s_UInt)
    THEN <<Item(StrV(ShaclLit.s_sh_datatype), StrV(ShaclLit.s_xsd_integer))>>
    ELSE IF Contains(c, ShaclLit.s_String)
    THEN <<Item(StrV(ShaclLit.s_sh_datatype), StrV(ContextLit.s_xsd_string))>>
    ELSE <<>>

\* the sh:datatype or sh:node items of a property shape
ShapeDatatype(self, prop_type) ==
    IF ~ Truthy(prop_type) THEN <<>> ELSE DatatypeItems(self, CleanType(prop_type.s))

\* the enum constraint whenever there are enum values, ranges or not
ShInItemsDespiteRanges(enum_values, enum_ranges, is_numeric) ==
    IF Truthy(enum_values)
    THEN <<Item(StrV(ShaclLit.s_sh_in), ListV(EnumList(enum_values, is_numeric)))>>
    ELSE <<>>

\* the enum constraint of a property shape: sh:in only if there are enum
\* values and no ranges
ShInItems(enum_values, enum_ranges, is_numeric) ==
    IF Truthy(enum_values) /\ ~ Truthy(enum_ranges)
    THEN <<Item(StrV(ShaclLit.s_sh_in), ListV(EnumList(enum_values, is_numeric)))>>
    ELSE <<>>

\* XSDGenerator._create_property_shape
create_property_shape(self, prop_name, prop_type, min_occurs, max_occurs, documentation, default_value, enum_values, enum_ranges) ==
    LET Shape(is_numeric, bound, datatype) ==
            DictV(<<Item(StrV(ShaclLit.s_sh_path), DictV(<<Item(StrV(ContextLit.s_at_id), prop_name)>>))>>
                  \o ShInItems(enum_values, enum_ranges, is_numeric)
                  \o (IF DigitsOr(min_occurs, 0) > 0
                      THEN <<Item(StrV(ShaclLit.s_sh_minCount), IntV(DigitsOr(min_occurs, 0)))>>
                      ELSE <<>>)
                  \o (IF max_occurs.s # ParserLit.s_unbounded /\ DigitsOr(max_occurs, 1) > 0
                      THEN <<Item(StrV(ShaclLit.s_sh_maxCount), IntV(DigitsOr(max_occurs, 1)))>>
                      ELSE <<>>)
                  \o (IF is_numeric /\ bound # <<>>
                      THEN <<Item(StrV(ShaclLit.s_sh_minInclusive), IntV(0)),
                             Item(StrV(ShaclLit.s_sh_maxInclusive), IntLit(bound))>>
                      ELSE <<>>)
                  \o datatype
                  \o (IF Truthy(documentation)
                      THEN <<Item(StrV(ContextLit.s_rdfs_comment), documentation)>> ELSE <<>>)
                  \o (IF Truthy(default_value)
                      THEN <<Item(StrV(ShaclLit.s_sh_defaultValue), default_value)>> ELSE <<>>))
    IN Shape(ShapeIsNumeric(self, PropTypeClean(prop_type)),
             UnsignedMax(BaseTypeForConstraints(self, PropTypeClean(prop_type))),
             ShapeDatatype(self, prop_type))

\* min_occurs of an attribute: '1' if attr.get('use') == 'required' else '0'
AttrMinOccurs(attr) == IF attr.use = StrV(ParserLit.s_required) THEN StrV(ParserLit.s_1) ELSE StrV(ParserLit.s_0)

\* the enum values and ranges that generate_shacl_shapes resolves for an
\* element: those of its registry type, else the element's own when it has
\* enum values
ShaclElemEnums(self, elem) ==
    LET elem_type == StrV(CleanType(elem.type.s))
    IN IF DictHas(self.types, elem_type)
       THEN <<DictAt(self.types, elem_type).enum_values, DictAt(self.types, elem_type).enum_ranges>>
       ELSE IF Truthy(elem.enum_values) THEN <<elem.enum_values, elem.enum_ranges>>
       ELSE <<NoneV, NoneV>>

\* and for an attribute: those of its registry type
ShaclAttrEnums(self, attr) ==
    LET attr_type == StrV(CleanType(attr.type.s))
    IN IF DictHas(self.types, attr_type)
       THEN <<DictAt(self.types, attr_type).enum_values, DictAt(self.types, attr_type).enum_ranges>>
       ELSE <<NoneV, NoneV>>

\* the property shape of an element
ElemShape(self, elem, include_docs) ==
    create_property_shape(self, elem.name, elem.type, elem.minOccurs, elem.maxOccurs,
                          IF include_docs THEN elem.documentation ELSE NoneV, NoneV,
                          ShaclElemEnums(self, elem)[1], ShaclElemEnums(self, elem)[2])

\* the property shape of an attribute
AttrShape(self, attr, include_docs) ==
    create_property_shape(self, attr.name, attr.type, AttrMinOccurs(attr), StrV(ParserLit.s_1),
                          IF include_docs THEN attr.documentation ELSE NoneV, attr.default,
                          ShaclAttrEnums(self, attr)[1], ShaclAttrEnums(self, attr)[2])

\* the types that get a NodeShape (and a schema): those with an element or an
\* attribute
Structured(self) ==
    SelectSeq(self.types, LAMBDA t : t.v.elements # <<>> \/ t.v.attributes # <<>>)

\* elem.get('type', '').replace(...) on an element or attribute declared
\* without a type: the key is there and holds None, so this raises
TypeIsAbsent(self) ==
    \E n \in 1..Len(Structured(self)) :
        \/ \E m \in 1..Len(Structured(self)[n].v.elements) :
               IsNone(Structured(self)[n].v.elements[m].type)
        \/ \E m \in 1..Len(Structured(self)[n].v.attributes) :
               IsNone(Structured(self)[n].v.attributes[m].type)

\* a NodeShape that lists the attributes before the elements
NodeShapeAttributesFirst(self, type_name, type_info, include_docs) ==
    DictV(<<Item(StrV(ContextLit.s_at_id), StrV(type_name.s \o ShaclLit.s_Shape)),
            Item(StrV(ContextLit.s_at_type), StrV(ShaclLit.s_sh_NodeShape)),
            Item(StrV(ShaclLit.s_sh_targetClass), DictV(<<Item(StrV(ContextLit.s_at_id), type_name)>>))>>
          \o (IF include_docs /\ Truthy(type_info.documentation)
              THEN <<Item(StrV(ContextLit.s_rdfs_comment), type_info.documentation)>> ELSE <<>>)
          \o <<Item(StrV(ShaclLit.s_sh_property),
                    ListV([n \in 1..Len(type_info.attributes) |->
                              AttrShape(self, type_info.attributes[n], include_docs)]
                          \o [n \in 1..Len(type_info.elements) |->
                                 ElemShape(self, type_info.elements[n], include_docs)]))>>)

\* the NodeShape of a structured type
NodeShape(self, type_name, type_info, include_docs) ==
    DictV(<<Item(StrV(ContextLit.s_at_id), StrV(type_name.s \o ShaclLit.s_Shape)),
            Item(StrV(ContextLit.s_at_type), StrV(ShaclLit.s_sh_NodeShape)),
            Item(StrV(ShaclLit.s_sh_targetClass), DictV(<<Item(StrV(ContextLit.s_at_id), type_name)>>))>>
          \o (IF include_docs /\ Truthy(type_info.documentation)
              THEN <<Item(StrV(ContextLit.s_rdfs_comment), type_info.documentation)>> ELSE <<>>)
          \o <<Item(StrV(ShaclLit.s_sh_property),
                    ListV([n \in 1..Len(type_info.elements) |->
                              ElemShape(self, type_info.elements[n], include_docs)]
                          \o [n \in 1..Len(type_info.attributes) |->
                                 AttrShape(self, type_info.attributes[n], include_docs)]))>>)

\* the primitive names that get an xsd: range in a property node
range_primitives == {ContextLit.s_string, ContextLit.s_int, ContextLit.s_long, ContextLit.s_boolean, ContextLit.s_unsignedByte,
                     ContextLit.s_unsignedShort, ContextLit.s_unsignedInt, ContextLit.s_unsignedLong,
                     ContextLit.s_byte, ContextLit.s_short, ContextLit.s_anyURI, ContextLit.s_hexBinary}

\* the rdf:Property node of a property recorded in properties_by_type
PropertyNode(self, type_name, name, type, min_occurs, max_occurs, documentation, include_docs) ==
    LET prop_type == CleanType(type.s)
        min_val == DigitsOr(min_occurs, 0)
        max_val == DigitsOr(max_occurs, 1)
    IN DictV(<<Item(StrV(ContextLit.s_at_id), name),
               Item(StrV(ContextLit.s_at_type), StrV(ShaclLit.s_rdf_Property)),
               Item(StrV(ShaclLit.s_rdfs_domain), DictV(<<Item(StrV(ContextLit.s_at_id), type_name)>>))>>
             \o (IF prop_type # <<>> /\ DictHas(self.types, StrV(prop_type))
                 THEN <<Item(StrV(ShaclLit.s_rdfs_range), DictV(<<Item(StrV(ContextLit.s_at_id), StrV(prop_type))>>))>>
                 ELSE IF prop_type # <<>> /\ prop_type \in range_primitives
                 THEN <<Item(StrV(ShaclLit.s_rdfs_range), StrV(ShaclLit.s_xsd_ \o prop_type))>>
                 ELSE <<>>)
             \o (IF include_docs /\ Truthy(documentation)
                 THEN <<Item(StrV(ContextLit.s_rdfs_comment), documentation)>> ELSE <<>>)
             \o (IF min_val = 0 THEN <<Item(StrV(ShaclLit.s_owl_minCardinality), IntV(0))>>
                 ELSE IF min_val > 1 THEN <<Item(StrV(ShaclLit.s_owl_minCardinality), IntV(min_val))>>
                 ELSE <<>>)
             \o (IF max_occurs.s # ParserLit.s_1 /\ max_occurs.s # ParserLit.s_unbounded /\ max_val > 1
                 THEN <<Item(StrV(ShaclLit.s_owl_maxCardinality), IntV(max_val))>> ELSE <<>>))

\* the property nodes of a structured type: its elements, then its attributes
PropertyNodes(self, type_name, type_info, include_docs) ==
    [n \in 1..Len(type_info.elements) |->
        PropertyNode(self, type_name, type_info.elements[n].name, type_info.elements[n].type,
                     type_info.elements[n].minOccurs, type_info.elements[n].maxOccurs,
                     type_info.elements[n].documentation, include_docs)]
    \o [n \in 1..Len(type_info.attributes) |->
           PropertyNode(self, type_name, type_info.attributes[n].name, type_info.attributes[n].type,
                        AttrMinOccurs(type_info.attributes[n]), StrV(ParserLit.s_1),
                        type_info.attributes[n].documentation, include_docs)]

\* XSDGenerator.generate_shacl_shapes
generate_shacl_shapes(self, include_docs, include_enums) ==
    IF TypeIsAbsent(self) THEN ExcV("AttributeError")
    ELSE DictV(<<Item(StrV(ContextLit.s_at_context),
                      DictV(<<Item(StrV(ContextLit.s_at_vocab), self.base_uri),
                              Item(StrV(ShaclLit.s_sh), StrV(ShaclLit.uri_sh)),
                              Item(StrV(ContextLit.s_rdf), StrV(ContextLit.uri_rdf)),
                              Item(StrV(ContextLit.s_rdfs), StrV(ContextLit.uri_rdfs)),
                              Item(StrV(ContextLit.s_xsd), StrV(ContextLit.uri_xsd)),
                              Item(StrV(ContextLit.s_owl), StrV(ContextLit.uri_owl))>>)),
                 Item(StrV(ContextLit.s_at_graph),
                      ListV([n \in 1..Len(Structured(self)) |->
                                NodeShape(self, Structured(self)[n].k, Structured(self)[n].v, include_docs)]
                            \o [n \in 1..Len(self.types) |->
                                   ClassNode(self, <<>>, self.types[n].k, self.types[n].v,
                                             include_docs, include_enums)]
                            \o FoldL(LAMBDA acc, t : acc \o PropertyNodes(self, t.k, t.v, include_docs),
                                     <<>>, Structured(self))))>>)

\* string literals of the JSON-Schema renderer
JsonLit ==
    [ s_integer |-> <<"i", "n", "t", "e", "g", "e", "r">>,
      s_uint8 |-> <<"u", "i", "n", "t", "8">>,
      s_uint16 |-> <<"u", "i", "n", "t", "1", "6">>,
      s_uint32 |-> <<"u", "i", "n", "t", "3", "2">>,
      s_uint64 |-> <<"u", "i", "n", "t", "6", "4">>,
      s_int8 |-> <<"i", "n", "t", "8">>,
      s_int16 |-> <<"i", "n", "t", "1", "6">>,
      s_int32 |-> <<"i", "n", "t", "3", "2">>,
      s_int64 |-> <<"i", "n", "t", "6", "4">>,
      s_HexBinary |-> <<"H", "e", "x", "B", "i", "n", "a", "r", "y">>,
      s_bit |-> <<"b", "i", "t">>,
      s_bitmap |-> <<"b", "i", "t", "m", "a", "p">>,
      s_bit_position |-> <<"b", "i", "t", " ", "p", "o", "s", "i", "t", "i", "o", "n">>,
      s_bit_positions_header |-> <<"\n", "\n", "B", "i", "t", " ", "p", "o", "s", "i", "t", "i", "o", "n", "s", " ", "(", "m", "u", "l", "t", "i", "p", "l", "e", " ", "b", "i", "t", "s", " ", "c", "a", "n", " ", "b", "e", " ", "s", "e", "t", ",", " ", "v", "a", "l", "u", "e", " ", "i", "s", " ", "h", "e", "x", "-", "e", "n", "c", "o", "d", "e", "d", ")", ":", "\n">>,
      s_bit_item |-> <<" ", " ", "-", " ", "B", "i", "t", " ">>,
      s_colon_space |-> <<":", " ">>,
      s_newline |-> <<"\n">>,
      s_bit_positions_example |-> <<"\n", "E", "x", "a", "m", "p", "l", "e", ":", " ", "T", "o", " ", "s", "e", "t", " ", "b", "i", "t", "s", " ", "0", " ", "a", "n", "d", " ", "1", ",", " ", "u", "s", "e", " ", "h", "e", "x", " ", "v", "a", "l", "u", "e", " ", "\"", "0", "0", "0", "0", "0", "0", "0", "3", "\"", " ", "(", "0", "x", "0", "0", "0", "0", "0", "0", "0", "1", " ", "|", " ", "0", "x", "0", "0", "0", "0", "0", "0", "0", "2", ")">>,
      s_HexBinary32 |-> <<"H", "e", "x", "B", "i", "n", "a", "r", "y", "3", "2">>,
      s_HexBinary16 |-> <<"H", "e", "x", "B", "i", "n", "a", "r", "y", "1", "6">>,
      s_HexBinary8 |-> <<"H", "e", "x", "B", "i", "n", "a", "r", "y", "8">>,
      s_HexBinary64 |-> <<"H", "e", "x", "B", "i", "n", "a", "r", "y", "6", "4">>,
      s_HexBinary160 |-> <<"H", "e", "x", "B", "i", "n", "a", "r", "y", "1", "6", "0">>,
      s_HexBinary48 |-> <<"H", "e", "x", "B", "i", "n", "a", "r", "y", "4", "8">>,
      s_description |-> <<"d", "e", "s", "c", "r", "i", "p", "t", "i", "o", "n">>,
      s_x_bit_positions |-> <<"x", "-", "b", "i", "t", "-", "p", "o", "s", "i", "t", "i", "o", "n", "s">>,
      s_pattern |-> <<"p", "a", "t", "t", "e", "r", "n">>,
      s_pattern_head |-> <<"^", "[", "0", "-", "9", "A", "-", "F", "a", "-", "f", "]", "{", "1", ",">>,
      s_pattern_tail |-> <<"}", "$">>,
      s_x_examples |-> <<"x", "-", "e", "x", "a", "m", "p", "l", "e", "s">>,
      s_00000001 |-> <<"0", "0", "0", "0", "0", "0", "0", "1">>,
      s_00000003 |-> <<"0", "0", "0", "0", "0", "0", "0", "3">>,
      s_FFFFFFFF |-> <<"F", "F", "F", "F", "F", "F", "F", "F">>,
      s_FF |-> <<"F", "F">>,
      s_range_dash |-> <<" ", "-", " ">>,
      s_enum_values_header |-> <<"E", "n", "u", "m", " ", "v", "a", "l", "u", "e", "s", ":">>,
      s_list_item |-> <<" ", " ", "-", " ">>,
      s_empty |-> <<>>,
      s_value_ranges_header |-> <<"V", "a", "l", "u", "e", " ", "r", "a", "n", "g", "e", "s", ":">>,
      s_enum |-> <<"e", "n", "u", "m">>,
      s_x_enum_descriptions |-> <<"x", "-", "e", "n", "u", "m", "-", "d", "e", "s", "c", "r", "i", "p", "t", "i", "o", "n", "s">>,
      s_format |-> <<"f", "o", "r", "m", "a", "t">>,
      s_type |-> <<"t", "y", "p", "e">>,
      s_minimum |-> <<"m", "i", "n", "i", "m", "u", "m">>,
      s_maximum |-> <<"m", "a", "x", "i", "m", "u", "m">>,
      s_array |-> <<"a", "r", "r", "a", "y">>,
      s_items |-> <<"i", "t", "e", "m", "s">>,
      s_minItems |-> <<"m", "i", "n", "I", "t", "e", "m", "s">>,
      s_maxItems |-> <<"m", "a", "x", "I", "t", "e", "m", "s">>,
      s_dollar_ref |-> <<"$", "r", "e", "f">>,
      s_ref_definitions |-> <<"#", "/", "d", "e", "f", "i", "n", "i", "t", "i", "o", "n", "s", "/">> ]

(***************************************************************************)
(* XSDGenerator: the JSON-Schema renderer                                  *)
(***************************************************************************)
\* xsd_to_json_type of _create_json_schema_property
xsd_to_json_type == <<Item(StrV(ContextLit.s_string), StrV(ContextLit.s_string)),
                      Item(StrV(ContextLit.s_int), StrV(JsonLit.s_integer)),
                      Item(StrV(ContextLit.s_long), StrV(JsonLit.s_integer)),
                      Item(StrV(ContextLit.s_boolean), StrV(ContextLit.s_boolean)),
                      Item(StrV(ContextLit.s_unsignedByte), StrV(JsonLit.s_integer)),
                      Item(StrV(ContextLit.s_unsignedShort), StrV(JsonLit.s_integer)),
                      Item(StrV(ContextLit.s_unsignedInt), StrV(JsonLit.s_integer)),
                      Item(StrV(ContextLit.s_unsignedLong), StrV(JsonLit.s_integer)),
                      Item(StrV(ContextLit.s_byte), StrV(JsonLit.s_integer)),
                      Item(StrV(ContextLit.s_short), StrV(JsonLit.s_integer)),
                      Item(StrV(ContextLit.s_anyURI), StrV(ContextLit.s_string)),
                      Item(StrV(ContextLit.s_hexBinary), StrV(ContextLit.s_string))>>

\* XSDGenerator._get_integer_format
get_integer_format(type_name) ==
    LET Format(type_lower) ==
            IF type_lower = JsonLit.s_uint8 \/ type_name = ContextLit.s_unsignedByte THEN StrV(JsonLit.s_uint8)
            ELSE IF type_lower = JsonLit.s_uint16 \/ type_name = ContextLit.s_unsignedShort THEN StrV(JsonLit.s_uint16)
            ELSE IF type_lower = JsonLit.s_uint32 \/ type_name = ContextLit.s_unsignedInt THEN StrV(JsonLit.s_uint32)
            ELSE IF type_lower = JsonLit.s_uint64 \/ type_name = ContextLit.s_unsignedLong THEN StrV(JsonLit.s_uint64)
            ELSE IF type_lower = JsonLit.s_int8 \/ type_name = ContextLit.s_byte THEN StrV(JsonLit.s_int8)
            ELSE IF type_lower = JsonLit.s_int16 \/ type_name = ContextLit.s_short THEN StrV(JsonLit.s_int16)
            ELSE IF type_lower = JsonLit.s_int32 \/ type_name = ContextLit.s_int THEN StrV(JsonLit.s_int32)
            ELSE IF type_lower = JsonLit.s_int64 \/ type_name = ContextLit.s_long THEN StrV(JsonLit.s_int64)
            ELSE NoneV
    IN Format(Lower(type_name))

\* json_type and format from a type name outside xsd_to_json_type, by the
\* substring rules: <<json_type or None, format or None>>
LexicalJsonType(name) ==
    IF Contains(name, ShaclLit.s_Int) \/ Contains(name, ShaclLit.s_UInt) THEN <<StrV(JsonLit.s_integer), get_integer_format(name)>>
    ELSE IF Contains(name, ShaclLit.s_String) THEN <<StrV(ContextLit.s_string), NoneV>>
    ELSE IF Contains(name, JsonLit.s_HexBinary) THEN <<StrV(ContextLit.s_string), StrV(ContextLit.s_hexBinary)>>
    ELSE <<NoneV, NoneV>>

\* json_type and format of a registry type that is not structured, from its
\* base or restriction
BaseJsonType(base_type) ==
    IF ~ Truthy(base_type) THEN <<NoneV, NoneV>>
    ELSE IF DictHas(xsd_to_json_type, StrV(CleanType(base_type.s)))
    THEN <<DictAt(xsd_to_json_type, StrV(CleanType(base_type.s))),
           IF CleanType(base_type.s) = ContextLit.s_hexBinary
              \/ Contains(CleanType(base_type.s), JsonLit.s_HexBinary)
           THEN StrV(ContextLit.s_hexBinary) ELSE NoneV>>
    ELSE LexicalJsonType(CleanType(base_type.s))

\* json_type and format of a property whose type is not a structured
\* registry type: <<json_type or None, format or None>>
JsonType(self, prop_type_clean) ==
    IF DictHas(xsd_to_json_type, StrV(prop_type_clean))
    THEN <<DictAt(xsd_to_json_type, StrV(prop_type_clean)), NoneV>>
    ELSE IF DictHas(self.types, StrV(prop_type_clean))
    THEN BaseJsonType(BaseOrRestriction(DictAt(self.types, StrV(prop_type_clean))))
    ELSE LexicalJsonType(prop_type_clean)

\* is_bitmask: a hexBinary format, enum values, and a documentation that
\* mentions bits
IsBitmask(format, enum_values, documentation, type_documentation) ==
    LET doc_lower == Lower(PyOr(documentation, StrV(<<>>)).s)
        type_doc_lower == Lower(PyOr(type_documentation, StrV(<<>>)).s)
    IN /\ format = StrV(ContextLit.s_hexBinary)
       /\ Truthy(enum_values)
       /\ \/ Contains(doc_lower, JsonLit.s_bit)
          \/ Contains(doc_lower, JsonLit.s_bitmap)
          \/ Contains(type_doc_lower, JsonLit.s_bit_position)
          \/ Contains(type_doc_lower, JsonLit.s_bitmap)

\* bit_positions: the enum values keyed by int(key) where the key parses
BitPositions(enum_values) ==
    FoldL(LAMBDA d, it : DictSet(d, IF IntParses(it.k.s) THEN IntLit(IntOf(it.k.s)) ELSE it.k, it.v),
          <<>>, enum_values.d)

\* the sort key of a bit position
BitSortKey(k) == IF IsStr(k) /\ IsDigitStr(k.s) THEN DecVal(k.s) ELSE 999

RECURSIVE StableSort(_, _)
\* sorted(s, key=Key): a stable sort
StableSort(Key(_), s) ==
    IF s = <<>> THEN <<>>
    ELSE LET n == CHOOSE m \in 1..Len(s) :
                      /\ \A j \in 1..Len(s) : Key(s[m]) <= Key(s[j])
                      /\ \A j \in 1..(m - 1) : Key(s[j]) # Key(s[m])
         IN <<s[n]>> \o StableSort(Key, SubSeq(s, 1, n - 1) \o SubSeq(s, n + 1, Len(s)))

\* str(v) of an int or a str
PyStr(v) == IF IsInt(v) THEN v.i ELSE v.s

\* bit_desc_text
BitDescText(bit_positions) ==
    JsonLit.s_bit_positions_header
    \o FoldL(LAMBDA text, bit_pos :
                 text \o JsonLit.s_bit_item \o PyStr(bit_pos) \o JsonLit.s_colon_space \o DictAt(bit_positions, bit_pos).s \o JsonLit.s_newline,
             <<>>, StableSort(BitSortKey, DictKeys(bit_positions)))
    \o JsonLit.s_bit_positions_example

\* hex_binary_size: the width read off the base of the property's registry
\* type, 0 for None
HexBinarySize(self, prop_type_clean) ==
    LET Width(base_clean) ==
            IF Contains(base_clean, JsonLit.s_HexBinary32) THEN 32
            ELSE IF Contains(base_clean, JsonLit.s_HexBinary16) THEN 16
            ELSE IF Contains(base_clean, JsonLit.s_HexBinary8) THEN 8
            ELSE IF Contains(base_clean, JsonLit.s_HexBinary64) THEN 64
            ELSE IF Contains(base_clean, JsonLit.s_HexBinary160) THEN 160
            ELSE IF Contains(base_clean, JsonLit.s_HexBinary48) THEN 48
            ELSE 0
    IN IF ~ DictHas(self.types, StrV(prop_type_clean)) THEN 0
       ELSE IF ~ Truthy(BaseOrRestriction(DictAt(self.types, StrV(prop_type_clean)))) THEN 0
       ELSE Width(CleanType(BaseOrRestriction(DictAt(self.types, StrV(prop_type_clean))).s))

\* the items that the bitmask branch adds to prop_schema
BitmaskItems(self, prop_type_clean, documentation, enum_values) ==
    LET Items(bit_positions, bit_desc_text, hex_binary_size) ==
            <<Item(StrV(JsonLit.s_description),
                   IF Truthy(documentation) THEN StrV(documentation.s \o bit_desc_text)
                   ELSE StrV(Strip(bit_desc_text))),
              Item(StrV(JsonLit.s_x_bit_positions), DictV(bit_positions))>>
            \o (IF hex_binary_size # 0
                THEN <<Item(StrV(JsonLit.s_pattern),
                            StrV(JsonLit.s_pattern_head \o IntStr(hex_binary_size \div 4)
                                 \o JsonLit.s_pattern_tail)),
                       Item(StrV(JsonLit.s_x_examples),
                            ListV(<<StrV(JsonLit.s_00000001), StrV(JsonLit.s_00000003),
                                    IF hex_binary_size >= 32 THEN StrV(JsonLit.s_FFFFFFFF)
                                    ELSE StrV(JsonLit.s_FF)>>))>>
                ELSE <<>>)
    IN Items(BitPositions(enum_values),
             BitDescText(BitPositions(enum_values)),
             HexBinarySize(self, prop_type_clean))

\* the integer names that make an enumeration numeric by its base
enum_integer_bases == {ContextLit.s_unsignedByte, ContextLit.s_unsignedShort, ContextLit.s_unsignedInt, ContextLit.s_unsignedLong,
                       ContextLit.s_byte, ContextLit.s_short, ContextLit.s_int, ContextLit.s_long}

\* is_numeric of the regular enum branch
EnumIsNumeric(self, prop_type_clean, json_type) ==
    LET OfBase(base_type) ==
            IF Truthy(base_type)
            THEN CleanType(base_type.s) \in enum_integer_bases
                 \/ Contains(CleanType(base_type.s), ShaclLit.s_Int)
                 \/ Contains(CleanType(base_type.s), ShaclLit.s_UInt)
            ELSE Contains(prop_type_clean, ShaclLit.s_Int) \/ Contains(prop_type_clean, ShaclLit.s_UInt)
    IN IF json_type = StrV(JsonLit.s_integer) THEN TRUE
       ELSE IF DictHas(self.types, StrV(prop_type_clean))
       THEN OfBase(BaseOrRestriction(DictAt(self.types, StrV(prop_type_clean))))
       ELSE FALSE

\* enum_descriptions: str(enum value) -> description, for the described values
EnumDescriptions(enum_list, enum_values) ==
    FoldL(LAMBDA d, n : IF Truthy(enum_values.d[n].v)
                        THEN DictSet(d, StrV(PyStr(enum_list[n])), enum_values.d[n].v)
                        ELSE d,
          <<>>, [n \in 1..Len(enum_list) |-> n])

\* f"{range_info['start']} - {range_info['end']}"
RangeKey(range_info) == IntStr(range_info.start) \o JsonLit.s_range_dash \o IntStr(range_info.end)

\* the ranges as a sequence
RangeSeq(enum_ranges) == IF Truthy(enum_ranges) THEN enum_ranges.l ELSE <<>>

RECURSIVE Join(_, _)
\* sep.join(lines)
Join(sep, lines) ==
    IF lines = <<>> THEN <<>>
    ELSE IF Len(lines) = 1 THEN lines[1]
    ELSE lines[1] \o sep \o Join(sep, Tail(lines))

\* enum_desc_lines
EnumDescLines(enum_descriptions, enum_ranges) ==
    LET specific_values == SelectSeq(enum_descriptions, LAMBDA it : ~ Contains(it.k.s, JsonLit.s_range_dash))
    IN (IF enum_descriptions # <<>> /\ specific_values # <<>>
        THEN <<JsonLit.s_enum_values_header>>
             \o [n \in 1..Len(specific_values) |->
                    JsonLit.s_list_item \o specific_values[n].k.s \o JsonLit.s_colon_space \o specific_values[n].v.s]
        ELSE <<>>)
       \o (IF Truthy(enum_ranges)
           THEN (IF enum_descriptions # <<>> THEN <<JsonLit.s_empty>> ELSE <<>>)
                \o <<JsonLit.s_value_ranges_header>>
                \o [n \in 1..Len(enum_ranges.l) |->
                       JsonLit.s_list_item \o RangeKey(enum_ranges.l[n]) \o JsonLit.s_colon_space \o enum_ranges.l[n].description.s]
           ELSE <<>>)

\* the items that the regular enum branch adds to prop_schema, enum_list
\* being the list built from the keys
EnumListItems(enum_list, documentation, enum_values, enum_ranges) ==
    LET Text(enum_desc_lines) ==
            IF enum_desc_lines # <<>>
            THEN JsonLit.s_newline \o Join(JsonLit.s_newline, enum_desc_lines) ELSE <<>>
        Items(enum_descriptions, enum_desc_text) ==
            (IF enum_list # <<>> /\ ~ Truthy(enum_ranges)
             THEN <<Item(StrV(JsonLit.s_enum), ListV(enum_list))>> ELSE <<>>)
            \o (IF enum_descriptions # <<>> \/ Truthy(enum_ranges)
                THEN <<Item(StrV(JsonLit.s_x_enum_descriptions),
                            DictV(FoldL(LAMBDA d, r : DictSet(d, StrV(RangeKey(r)), r.description),
                                        enum_descriptions, RangeSeq(enum_ranges)))),
                       Item(StrV(JsonLit.s_description),
                            IF Truthy(documentation) THEN StrV(documentation.s \o enum_desc_text)
                            ELSE StrV(Strip(enum_desc_text)))>>
                ELSE <<>>)
    IN Items(EnumDescriptions(enum_list, enum_values),
             Text(EnumDescLines(EnumDescriptions(enum_list, enum_values), enum_ranges)))

\* the regular enum branch
EnumItems(self, prop_type_clean, json_type, documentation, enum_values, enum_ranges) ==
    EnumListItems(EnumList(enum_values, EnumIsNumeric(self, prop_type_clean, json_type)),
                  documentation, enum_values, enum_ranges)

\* prop_schema of a property that is not a reference: jt its json_type and
\* format, bound the upper bound of its unsigned family
PropSchema(self, prop_type_clean, jt, bound, min_occurs, max_occurs, documentation, default_value, enum_values, type_documentation, enum_ranges) ==
    LET Typed ==
            (IF Truthy(jt[2]) THEN <<Item(StrV(JsonLit.s_format), jt[2])>> ELSE <<>>)
            \o (IF Truthy(jt[1]) THEN <<Item(StrV(JsonLit.s_type), jt[1])>> ELSE <<>>)
        Constrained(items) ==
            IF jt[1] = StrV(JsonLit.s_integer) /\ bound # <<>>
            THEN DictSet(DictSet(items, StrV(JsonLit.s_minimum), IntV(0)),
                         StrV(JsonLit.s_maximum), IntLit(bound))
            ELSE items
        Wrapped(items) ==
            IF max_occurs.s = ParserLit.s_unbounded
               \/ (IsDigitStr(max_occurs.s) /\ DecVal(max_occurs.s) > 1)
            THEN <<Item(StrV(JsonLit.s_type), StrV(JsonLit.s_array)),
                   Item(StrV(JsonLit.s_items), DictV(items))>>
                 \o (IF DigitsOr(min_occurs, 0) > 0
                     THEN <<Item(StrV(JsonLit.s_minItems), IntV(DigitsOr(min_occurs, 0)))>> ELSE <<>>)
                 \o (IF IsDigitStr(max_occurs.s)
                     THEN <<Item(StrV(JsonLit.s_maxItems), IntV(DecVal(max_occurs.s)))>> ELSE <<>>)
            ELSE items
        Described(items) ==
            IF Truthy(documentation) /\ ~ DictHas(items, StrV(JsonLit.s_description))
            THEN DictSet(items, StrV(JsonLit.s_description), documentation)
            ELSE items
        Defaulted(items) ==
            IF Truthy(default_value) THEN DictSet(items, StrV(ParserLit.s_default), default_value)
            ELSE items
        OrNone(items) == IF items # <<>> THEN DictV(items) ELSE NoneV
    IN OrNone(Defaulted(Described(Wrapped(Constrained(
           Typed \o (IF ~ Truthy(enum_values) THEN <<>>
                     ELSE IF IsBitmask(jt[2], enum_values, documentation, type_documentation)
                     THEN BitmaskItems(self, prop_type_clean, documentation, enum_values)
                     ELSE EnumItems(self, prop_type_clean, jt[1], documentation,
                                    enum_values, enum_ranges)))))))

\* the type is a registry type with elements or attributes, outside
\* xsd_to_json_type: the property is a $ref
IsReference(self, prop_type_clean) ==
    /\ ~ DictHas(xsd_to_json_type, StrV(prop_type_clean))
    /\ DictHas(self.types, StrV(prop_type_clean))
    /\ \/ DictAt(self.types, StrV(prop_type_clean)).elements # <<>>
       \/ DictAt(self.types, StrV(prop_type_clean)).attributes # <<>>

\* XSDGenerator._create_json_schema_property; None when there is no schema
create_json_schema_property(self, prop_type, min_occurs, max_occurs, documentation, include_enums, default_value, enum_values, type_documentation, enum_ranges) ==
    IF ~ Truthy(prop_type) THEN NoneV
    ELSE IF IsReference(self, CleanType(prop_type.s))
    THEN DictV(<<Item(StrV(JsonLit.s_dollar_ref),
                      StrV(JsonLit.s_ref_definitions \o CleanType(prop_type.s)))>>
               \o (IF Truthy(documentation)
                   THEN <<Item(StrV(JsonLit.s_description), documentation)>> ELSE <<>>)
               \o (IF Truthy(default_value)
                   THEN <<Item(StrV(ParserLit.s_default), default_value)>> ELSE <<>>))
    ELSE PropSchema(self, CleanType(prop_type.s),
                    JsonType(self, CleanType(prop_type.s)),
                    UnsignedMax(BaseTypeForConstraints(self, CleanType(prop_type.s))),
                    min_occurs, max_occurs, documentation, default_value, enum_values,
                    type_documentation, enum_ranges)

\* string literals of generate_json_schema
SchemaLit ==
    [ s_object |-> <<"o", "b", "j", "e", "c", "t">>,
      s_properties |-> <<"p", "r", "o", "p", "e", "r", "t", "i", "e", "s">>,
      s_dollar_schema |-> <<"$", "s", "c", "h", "e", "m", "a">>,
      uri_json_schema |-> <<"h", "t", "t", "p", ":", "/", "/", "j", "s", "o", "n", "-", "s", "c", "h", "e", "m", "a", ".", "o", "r", "g", "/", "d", "r", "a", "f", "t", "-", "0", "7", "/", "s", "c", "h", "e", "m", "a", "#">>,
      s_dollar_id |-> <<"$", "i", "d">>,
      s_schema_json |-> <<"s", "c", "h", "e", "m", "a", ".", "j", "s", "o", "n">>,
      s_title |-> <<"t", "i", "t", "l", "e">>,
      s_schema_title |-> <<"I", "E", "E", "E", " ", "2", "0", "3", "0", ".", "5", " ", "S", "c", "h", "e", "m", "a">>,
      s_schema_description |-> <<"J", "S", "O", "N", " ", "S", "c", "h", "e", "m", "a", " ", "g", "e", "n", "e", "r", "a", "t", "e", "d", " ", "f", "r", "o", "m", " ", "I", "E", "E", "E", " ", "2", "0", "3", "0", ".", "5", " ", "X", "S", "D">>,
      s_definitions |-> <<"d", "e", "f", "i", "n", "i", "t", "i", "o", "n", "s">> ]

\* the enum values and ranges that generate_json_schema resolves for an
\* element: its own, and where one of the two is None that of its registry
\* type, if enumerations are included
JsonElemEnums(self, elem, include_enums) ==
    LET elem_type == StrV(CleanType(elem.type.s))
        from_type == (IsNone(elem.enum_values) \/ IsNone(elem.enum_ranges))
                     /\ include_enums /\ DictHas(self.types, elem_type)
    IN <<IF from_type /\ IsNone(elem.enum_values)
         THEN DictAt(self.types, elem_type).enum_values ELSE elem.enum_values,
         IF from_type /\ IsNone(elem.enum_ranges)
         THEN DictAt(self.types, elem_type).enum_ranges ELSE elem.enum_ranges>>

\* and for an attribute: those of its registry type, if enumerations are
\* included
JsonAttrEnums(self, attr, include_enums) ==
    LET attr_type == StrV(CleanType(attr.type.s))
    IN IF include_enums /\ DictHas(self.types, attr_type)
       THEN <<DictAt(self.types, attr_type).enum_values, DictAt(self.types, attr_type).enum_ranges>>
       ELSE <<NoneV, NoneV>>

\* type_doc: the documentation of the property's registry type
TypeDoc(self, type) ==
    IF DictHas(self.types, StrV(CleanType(type.s)))
    THEN DictAt(self.types, StrV(CleanType(type.s))).documentation
    ELSE NoneV

\* the property schema of an element
ElemSchema(self, elem, include_docs, include_enums) ==
    create_json_schema_property(self, elem.type, elem.minOccurs, elem.maxOccurs,
                                IF include_docs THEN elem.documentation ELSE NoneV,
                                include_enums, NoneV,
                                JsonElemEnums(self, elem, include_enums)[1],
                                TypeDoc(self, elem.type),
                                JsonElemEnums(self, elem, include_enums)[2])

\* the property schema of an attribute
AttrSchema(self, attr, include_docs, include_enums) ==
    create_json_schema_property(self, attr.type, AttrMinOccurs(attr), StrV(ParserLit.s_1),
                                IF include_docs THEN attr.documentation ELSE NoneV,
                                include_enums, attr.default,
                                JsonAttrEnums(self, attr, include_enums)[1],
                                TypeDoc(self, attr.type),
                                JsonAttrEnums(self, attr, include_enums)[2])

\* one turn of the property loops; acc = [properties, required]
AddProperty(acc, name, prop_schema, min_occurs) ==
    IF Truthy(prop_schema)
    THEN [properties |-> DictSet(acc.properties, name, prop_schema),
          required |-> IF min_occurs = StrV(ParserLit.s_1) THEN Append(acc.required, name) ELSE acc.required]
    ELSE acc

\* the object schema of a structured type
TypeSchema(self, type_info, include_docs, include_enums) ==
    LET Schema(all) ==
            DictV(<<Item(StrV(JsonLit.s_type), StrV(SchemaLit.s_object)),
                    Item(StrV(SchemaLit.s_properties), DictV(all.properties)),
                    Item(StrV(ParserLit.s_required), ListV(all.required))>>
                  \o (IF include_docs /\ Truthy(type_info.documentation)
                      THEN <<Item(StrV(JsonLit.s_description), type_info.documentation)>>
                      ELSE <<>>))
    IN Schema(FoldL(LAMBDA acc, attr :
                        AddProperty(acc, attr.name,
                                    AttrSchema(self, attr, include_docs, include_enums),
                                    AttrMinOccurs(attr)),
                    FoldL(LAMBDA acc, elem :
                              AddProperty(acc, elem.name,
                                          ElemSchema(self, elem, include_docs, include_enums),
                                          elem.minOccurs),
                          [properties |-> <<>>, required |-> <<>>], type_info.elements),
                    type_info.attributes))

\* XSDGenerator.generate_json_schema
generate_json_schema(self, include_docs, include_enums) ==
    IF TypeIsAbsent(self) THEN ExcV("AttributeError")
    ELSE DictV(<<Item(StrV(SchemaLit.s_dollar_schema), StrV(SchemaLit.uri_json_schema)),
                 Item(StrV(SchemaLit.s_dollar_id), StrV(self.base_uri.s \o SchemaLit.s_schema_json)),
                 Item(StrV(SchemaLit.s_title), StrV(SchemaLit.s_schema_title)),
                 Item(StrV(JsonLit.s_description), StrV(SchemaLit.s_schema_description)),
                 Item(StrV(SchemaLit.s_definitions),
                      DictV([n \in 1..Len(Structured(self)) |->
                                Item(Structured(self)[n].k,
                                     TypeSchema(self, Structured(self)[n].v, include_docs, include_enums))]))>>)

(***************************************************************************)
(* The conversion as a state machine.                                      *)
(*                                                                         *)
(* A request names an XSD document and its options; the wrapper builds an  *)
(* XSDParser, parses the document, builds an XSDGenerator over the parser  *)
(* and calls a renderer.  The documentation interpreter is also driven on  *)
(* its own, on documentation texts.                                        *)
(***************************************************************************)
VARIABLES
    doc_text,    \* the documentation text handed to _parse_enum_values
    enum_data,   \* what _parse_enum_values returned for it, None before
    xsd_file,    \* the root of the XSD document of the request
    options,     \* the options of the request
    parser,      \* the XSDParser of the request
    pc,          \* "idle", "requested", "constructed" (parser built), "parsed", "failed"
    rendered,    \* the last document of each renderer in this request
    requests     \* the number of requests made so far

vars == <<doc_text, enum_data, xsd_file, options, parser, pc, rendered, requests>>

\* no renderer has been called
NoneRendered == [context |-> NoneV, schema |-> NoneV, shacl |-> NoneV, json_schema |-> NoneV,
                 openapi |-> NoneV]

\* the variables of the conversion while only the interpreter is driven
ConversionIdle ==
    /\ xsd_file = NoneV
    /\ options = [include_docs |-> TRUE, include_enums |-> TRUE, include_schema |-> TRUE,
                  shacl_file_url |-> NoneV, base_uri |-> NoneV, wadl_file |-> NoneV]
    /\ parser = NoneV
    /\ pc = "idle"
    /\ rendered = NoneRendered
    /\ requests = 0

(***************************************************************************)
(* Documentation texts: one to MaxLines lines, each a key, a separator and *)
(* a description, or a line of prose.                                      *)
(***************************************************************************)
MaxLines == 2

DocKeys == {<<"0">>, <<"3">>}
DocSeparators == {<<" ", "=", " ">>, <<" ", "-", " ">>, <<":", " ">>}
DocDescriptions == {<<"V", "a", "l", "u", "e">>,
                    <<"V", "a", "l", "u", "e", " ", "(", "d", "e", "f", "a", "u", "l", "t", ",", " ", "i", "f", " ", "n", "o", "t", " ", "s", "p", "e", "c", "i", "f", "i", "e", "d", ")">>,
                    <<"V", "a", "l", "u", "e", ".", " ", "(", "D", "e", "f", "a", "u", "l", "t", ")">>,
                    <<"6", "4", ":", " ", "R", "e", "s", "e", "r", "v", "e", "d">>}
ProseLines == {<<"R", "e", "s", "e", "r", "v", "e", "d", " ", "f", "o", "r", " ", "f", "u", "t", "u", "r", "e", " ", "u", "s", "e">>, <<>>}

DocLines == {k \o s \o d : k \in DocKeys, s \in DocSeparators, d \in DocDescriptions} \cup ProseLines

\* the lines with a newline between them
JoinLines(lines) ==
    FoldL(LAMBDA acc, line : acc \o <<"\n">> \o line, Head(lines), Tail(lines))

DocTexts == {JoinLines(lines) : lines \in UNION {[1..n -> DocLines] : n \in 1..MaxLines}}

InitDoc ==
    /\ doc_text \in {StrV(text) : text \in DocTexts}
    /\ enum_data = NoneV
    /\ ConversionIdle

\* enum_data = self._parse_enum_values(doc_text)
ParseEnumValues ==
    /\ enum_data = NoneV
    /\ LET data == parse_enum_values(doc_text)
       IN enum_data' = TupleV(data[1], data[2])
    /\ UNCHANGED <<doc_text, xsd_file, options, parser, pc, rendered, requests>>

NextDoc == ParseEnumValues

SpecDoc == InitDoc /\ [][NextDoc]_vars

(***************************************************************************)
(* The documentation interpreter: what the lines of a text are, read       *)
(* without the regular expressions of the code.                            *)
(***************************************************************************)
\* the lines of the text given to the interpreter, each one trimmed
TrimmedLines ==
    LET raw == Split(doc_text.s, "\n")
    IN [n \in 1..Len(raw) |-> Strip(raw[n])]

AllDigits(s, a, b) == a <= b /\ \A n \in a..b : IsDigit(s[n])
AllSpaces(s, a, b) == \A n \in a..b : IsSpace(s[n])

\* line is  <digits> - <digits>: <text>
IsRangeLine(line) ==
    \E a \in 1..Len(line) :
        /\ AllDigits(line, 1, a)
        /\ \E b \in (a + 1)..Len(line) :
               /\ AllSpaces(line, a + 1, b - 1)
               /\ line[b] = "-"
               /\ \E c \in (b + 1)..Len(line) :
                      /\ AllSpaces(line, b + 1, c - 1)
                      /\ \E d \in c..Len(line) :
                             /\ AllDigits(line, c, d)
                             /\ \E e \in (d + 1)..(Len(line) - 1) :
                                    /\ AllSpaces(line, d + 1, e - 1)
                                    /\ line[e] = ":"

\* line is  <digits> <sep> <text>  with sep one of = - :
IsValueLine(line) ==
    \E a \in 1..Len(line) :
        /\ AllDigits(line, 1, a)
        /\ \E b \in (a + 1)..(Len(line) - 1) :
               /\ AllSpaces(line, a + 1, b - 1)
               /\ line[b] \in Separators

\* the position of the first character of s that is in chars
FirstOf(s, chars) == CHOOSE n \in 1..Len(s) : s[n] \in chars /\ \A m \in 1..(n - 1) : s[m] \notin chars

\* the parts of a range line
RangeStart(line) == DecVal(Strip(SubSeq(line, 1, FirstOf(line, {"-"}) - 1)))
RangeEnd(line) == DecVal(Strip(SubSeq(line, FirstOf(line, {"-"}) + 1, FirstOf(line, {":"}) - 1)))
RangeText(line) == Strip(From(line, FirstOf(line, {":"})))

\* the parts of a single-value line
ValueKey(line) == SubSeq(line, 1, DigitRun(line))
ValueText(line) == Strip(From(line, FirstOf(line, Separators)))

\* a description with every (...default...) parenthetical removed and the
\* trailing punctuation trimmed, wherever the two stand
TrimmedDescription(text) == Strip(RStripSet(Strip(SubDefaultParen(text)), TrailingPunct))

\* what the interpreter returned
EnumValuesOf(data) == IF IsNone(data.t[1]) THEN <<>> ELSE data.t[1].d
EnumRangesOf(data) == IF IsNone(data.t[2]) THEN <<>> ELSE data.t[2].l

RangeLines(lines) == SelectSeq(lines, IsRangeLine)
OtherLines(lines) == SelectSeq(lines, LAMBDA line : ~ IsRangeLine(line))

\* C5: every line  <digits> - <digits>: <text>  adds the record of its
\* start, end and description to the ranges, in line order, and adds no key
\* to the enum values: every key comes from a line that is no range line.
C5_RangeLinesAreRanges ==
    enum_data # NoneV =>
        LET ranges == RangeLines(TrimmedLines)
            others == OtherLines(TrimmedLines)
            values == EnumValuesOf(enum_data)
        IN /\ EnumRangesOf(enum_data) =
                  [n \in 1..Len(ranges) |->
                      [start |-> RangeStart(ranges[n]),
                       end |-> RangeEnd(ranges[n]),
                       description |-> StrV(TrimmedDescription(RangeText(ranges[n])))]]
           /\ \A n \in 1..Len(values) :
                  \E m \in 1..Len(others) :
                      /\ IsValueLine(others[m])
                      /\ ValueKey(others[m]) = values[n].k.s

\* a text with a range line and a single-value line of the same key has been
\* interpreted
C5_Witness ==
    /\ enum_data # NoneV
    /\ \E n, m \in 1..Len(TrimmedLines) :
           /\ IsRangeLine(TrimmedLines[n])
           /\ ~ IsRangeLine(TrimmedLines[m])
           /\ IsValueLine(TrimmedLines[m])
           /\ ValueKey(TrimmedLines[m]) = ValueKey(TrimmedLines[n])
    /\ EnumRangesOf(enum_data) # <<>>
    /\ EnumValuesOf(enum_data) # <<>>

\* C6: for every single-value line that is not a range line, the enum value
\* of its key is its text with the (...default...) parenthetical removed
\* and the trailing punctuation trimmed, wherever the two stand (the last
\* line of a key is the one kept).
C6_DescriptionIsCleaned ==
    enum_data # NoneV =>
        LET others == OtherLines(TrimmedLines)
            values == EnumValuesOf(enum_data)
        IN \A n \in 1..Len(others) :
               (/\ IsValueLine(others[n])
                /\ \A m \in (n + 1)..Len(others) :
                       IsValueLine(others[m]) => ValueKey(others[m]) # ValueKey(others[n]))
               => /\ DictHas(values, StrV(ValueKey(others[n])))
                  /\ DictAt(values, StrV(ValueKey(others[n])))
                         = StrV(TrimmedDescription(ValueText(others[n])))

\* the punctuation stands before the parenthetical and is kept
C6_PunctuationKept ==
    /\ enum_data # NoneV
    /\ doc_text = StrV(<<"0", " ", "=", " ", "V", "a", "l", "u", "e", ".", " ", "(", "D", "e", "f", "a", "u", "l", "t", ")">>)
    /\ DictAt(EnumValuesOf(enum_data), StrV(<<"0">>)) = StrV(<<"V", "a", "l", "u", "e", ".">>)

(***************************************************************************)
(* XSD documents.  A document declares the complex type Holder, with one   *)
(* element p and one attribute a of the same type, and the simple types    *)
(* that the property's type needs: the type itself and its base, where the *)
(* library declares them.                                                  *)
(***************************************************************************)
Annotation(text) == Node("annotation", NoAttrs, <<TextNode("documentation", StrV(text))>>)
Annotated(doc) == IF IsNone(doc) THEN <<>> ELSE <<Annotation(doc.s)>>
Facet(value) == Node("enumeration", [NoAttrs EXCEPT !.value = StrV(value)], <<>>)
SimpleType(name, base, doc, facets) ==
    Node("simpleType", [NoAttrs EXCEPT !.name = StrV(name)],
         Annotated(doc) \o <<Node("restriction", [NoAttrs EXCEPT !.base = StrV(base)], facets)>>)
Element(name, type, doc) ==
    Node("element", [NoAttrs EXCEPT !.name = StrV(name), !.type = StrV(type)], Annotated(doc))
Attribute(name, type) ==
    Node("attribute", [NoAttrs EXCEPT !.name = StrV(name), !.type = StrV(type)], <<>>)
ComplexType(name, elements, attributes) ==
    Node("complexType", [NoAttrs EXCEPT !.name = StrV(name)],
         <<Node("other", NoAttrs, elements)>> \o attributes)
Schema(declarations) ==
    Node("schema", [NoAttrs EXCEPT !.targetNamespace = StrV(<<"u", "r", "n", ":", "i", "e", "e", "e", ":", "s", "t", "d", ":", "2", "0", "3", "0", ".", "5", ":", "n", "s">>)], declarations)

OnOffDoc == StrV(<<"0", " ", "=", " ", "O", "f", "f", "\n", "1", " ", "=", " ", "O", "n">>)
RangeDoc == StrV(<<"0", " ", "-", " ", "1", "0", ":", " ", "L", "o", "w">>)
PercentDoc == StrV(<<"0", " ", "=", " ", "N", "o", "n", "e", "\n", "1", " ", "-", " ", "1", "0", "0", ":", " ", "P", "e", "r", "c", "e", "n", "t">>)
ModeDoc == StrV(<<"1", " ", "=", " ", "l", "e", "g", "a", "c", "y">>)
BitmapDoc == StrV(<<"B", "i", "t", "m", "a", "p", "\n", "0", " ", "=", " ", "B", "i", "t", "A", "\n", "1", " ", "=", " ", "B", "i", "t", "B">>)

\* the simple types a document may declare: name, restriction base,
\* documentation, enumeration facets
TypeLibrary ==
    <<[name |-> <<"U", "I", "n", "t", "8">>, base |-> <<"x", "s", ":", "u", "n", "s", "i", "g", "n", "e", "d", "B", "y", "t", "e">>, doc |-> NoneV, facets |-> <<>>],
      [name |-> <<"U", "I", "n", "t", "3", "2">>, base |-> <<"x", "s", ":", "u", "n", "s", "i", "g", "n", "e", "d", "I", "n", "t">>, doc |-> NoneV, facets |-> <<>>],
      [name |-> <<"U", "I", "n", "t", "6", "4">>, base |-> <<"x", "s", ":", "u", "n", "s", "i", "g", "n", "e", "d", "L", "o", "n", "g">>, doc |-> NoneV, facets |-> <<>>],
      [name |-> <<"I", "n", "t", "1", "6">>, base |-> <<"x", "s", ":", "s", "h", "o", "r", "t">>, doc |-> NoneV, facets |-> <<>>],
      [name |-> <<"O", "n", "O", "f", "f">>, base |-> <<"U", "I", "n", "t", "8">>, doc |-> OnOffDoc, facets |-> <<>>],
      [name |-> <<"P", "e", "r", "c", "e", "n", "t">>, base |-> <<"U", "I", "n", "t", "1", "6">>, doc |-> PercentDoc, facets |-> <<>>],
      [name |-> <<"M", "o", "d", "e">>, base |-> <<"x", "s", ":", "s", "t", "r", "i", "n", "g">>, doc |-> ModeDoc, facets |-> <<<<"o", "n">>, <<"o", "f", "f">>>>],
      [name |-> <<"H", "e", "x", "B", "i", "n", "a", "r", "y", "3", "2">>, base |-> <<"x", "s", ":", "h", "e", "x", "B", "i", "n", "a", "r", "y">>, doc |-> NoneV, facets |-> <<>>],
      [name |-> <<"F", "l", "a", "g", "s", "8">>, base |-> <<"H", "e", "x", "B", "i", "n", "a", "r", "y", "8">>, doc |-> BitmapDoc, facets |-> <<>>],
      [name |-> <<"F", "l", "a", "g", "s", "1", "6">>, base |-> <<"H", "e", "x", "B", "i", "n", "a", "r", "y", "1", "6">>, doc |-> BitmapDoc, facets |-> <<>>],
      [name |-> <<"F", "l", "a", "g", "s", "3", "2">>, base |-> <<"H", "e", "x", "B", "i", "n", "a", "r", "y", "3", "2">>, doc |-> BitmapDoc, facets |-> <<>>],
      [name |-> <<"F", "l", "a", "g", "s", "4", "8">>, base |-> <<"H", "e", "x", "B", "i", "n", "a", "r", "y", "4", "8">>, doc |-> BitmapDoc, facets |-> <<>>],
      [name |-> <<"F", "l", "a", "g", "s", "6", "4">>, base |-> <<"H", "e", "x", "B", "i", "n", "a", "r", "y", "6", "4">>, doc |-> BitmapDoc, facets |-> <<>>],
      [name |-> <<"F", "l", "a", "g", "s", "1", "6", "0">>, base |-> <<"H", "e", "x", "B", "i", "n", "a", "r", "y", "1", "6", "0">>, doc |-> BitmapDoc, facets |-> <<>>]>>

\* type names that no document declares
UndeclaredTypes == {<<"U", "I", "n", "t", "1", "6">>, <<"x", "s", ":", "u", "n", "s", "i", "g", "n", "e", "d", "B", "y", "t", "e">>, <<"x", "s", ":", "s", "t", "r", "i", "n", "g">>}

PropertyTypes == {TypeLibrary[n].name : n \in 1..Len(TypeLibrary)} \cup UndeclaredTypes
PropertyDocs == {NoneV, OnOffDoc, RangeDoc, BitmapDoc}

\* the library's declaration of name, if it has one
Declarations(name) ==
    [n \in 1..Len(SelectSeq(TypeLibrary, LAMBDA t : t.name = name)) |->
        LET t == SelectSeq(TypeLibrary, LAMBDA u : u.name = name)[n]
        IN SimpleType(t.name, t.base, t.doc, [m \in 1..Len(t.facets) |-> Facet(t.facets[m])])]

\* the base named by the library's declaration of name, if it has one
BaseOf(name) ==
    IF \E n \in 1..Len(TypeLibrary) : TypeLibrary[n].name = name
    THEN TypeLibrary[CHOOSE n \in 1..Len(TypeLibrary) : TypeLibrary[n].name = name].base
    ELSE <<>>

Document(type, doc) ==
    Schema(<<ComplexType(<<"H", "o", "l", "d", "e", "r">>, <<Element(<<"p">>, type, doc)>>, <<Attribute(<<"a">>, type)>>)>>
           \o Declarations(BaseOf(type)) \o Declarations(type))

Documents == {Document(type, doc) : type \in PropertyTypes, doc \in PropertyDocs}

\* the options of a request; a conversion that calls only the SHACL and the
\* JSON-Schema renderers leaves the two options of the context at their defaults
RequestOptions ==
    [include_docs : BOOLEAN, include_enums : BOOLEAN, include_schema : BOOLEAN,
     shacl_file_url : {NoneV, StrV(<<"s", "h", "a", "p", "e", "s", ".", "j", "s", "o", "n", "l", "d">>)}, base_uri : {NoneV}, wadl_file : {NoneV}]
OptionSets == {o \in RequestOptions : o.include_schema /\ IsNone(o.shacl_file_url)}

(***************************************************************************)
(* One conversion: parse, then the SHACL and the JSON-Schema renderers.    *)
(***************************************************************************)
\* the interpreter variables while a conversion is driven
InterpreterIdle == doc_text = NoneV /\ enum_data = NoneV

Init ==
    /\ InterpreterIdle
    /\ xsd_file \in Documents
    /\ options \in OptionSets
    /\ parser = XSDParser_init(options.base_uri)
    /\ pc = "constructed"
    /\ rendered = NoneRendered
    /\ requests = 1

\* ET.parse(xsd_file).getroot(): the root of a well-formed document, and
\* ParseError for a text that is not well-formed XML
ET_parse(document) == IF "tag" \in DOMAIN document THEN document ELSE ExcV("ParseError")

\* parser.parse(xsd_file); the exception of ET.parse leaves the wrapper
Parse ==
    /\ pc = "constructed"
    /\ IF IsExc(ET_parse(xsd_file))
       THEN parser' = parser /\ pc' = "failed"
       ELSE parser' = parse(parser, ET_parse(xsd_file)) /\ pc' = "parsed"
    /\ UNCHANGED <<doc_text, enum_data, xsd_file, options, rendered, requests>>

\* a renderer that stores the enumerations it resolved back into the registry
AfterRenderResolved(p, generator) ==
    [p EXCEPT !.types = [n \in 1..Len(generator.types) |->
                            Item(generator.types[n].k,
                                 [generator.types[n].v EXCEPT !.enum_values = NoneV])],
              !.elements = generator.elements]

\* the parser after a renderer was called on its generator: the generator
\* holds the registries of the parser themselves, not copies, and the
\* renderers read them without writing to them
AfterRender(p, generator) ==
    [p EXCEPT !.types = generator.types, !.elements = generator.elements]

\* XSDGenerator(parser).generate_shacl_shapes(include_docs, include_enums)
GenerateShaclShapes ==
    /\ pc = "parsed"
    /\ rendered' = [rendered EXCEPT !.shacl =
                        generate_shacl_shapes(XSDGenerator_init(parser),
                                              options.include_docs, options.include_enums)]
    /\ parser' = AfterRender(parser, XSDGenerator_init(parser))
    /\ UNCHANGED <<doc_text, enum_data, xsd_file, options, pc, requests>>

\* XSDGenerator(parser).generate_json_schema(include_docs, include_enums)
GenerateJsonSchema ==
    /\ pc = "parsed"
    /\ rendered' = [rendered EXCEPT !.json_schema =
                        generate_json_schema(XSDGenerator_init(parser),
                                             options.include_docs, options.include_enums)]
    /\ parser' = AfterRender(parser, XSDGenerator_init(parser))
    /\ UNCHANGED <<doc_text, enum_data, xsd_file, options, pc, requests>>

Next == Parse \/ GenerateShaclShapes \/ GenerateJsonSchema

Spec == Init /\ [][Next]_vars

(***************************************************************************)
(* Requests one after the other.  Each request builds its own parser and   *)
(* generator; the renderers may be called on the generator any number of   *)
(* times and in any order.                                                 *)
(***************************************************************************)
MaxRequests == 2

\* the documents of the requests: they declare different types
RequestDocuments == {Document(<<"O", "n", "O", "f", "f">>, NoneV), Document(<<"M", "o", "d", "e">>, RangeDoc), Document(<<"F", "l", "a", "g", "s", "3", "2">>, BitmapDoc)}

\* one parser for all the requests
SharedParser(previous) == previous

\* parser = XSDParser() of a wrapper: a new parser, whatever parser the
\* request before has left
RequestParser(previous) == XSDParser_init(NoneV)

InitRequests ==
    /\ InterpreterIdle
    /\ xsd_file \in RequestDocuments
    /\ options \in RequestOptions
    /\ parser = XSDParser_init(options.base_uri)
    /\ pc = "constructed"
    /\ rendered = NoneRendered
    /\ requests = 1

\* XSDGenerator(parser).generate_jsonld_context(...)
GenerateJsonldContext ==
    /\ pc = "parsed"
    /\ rendered' = [rendered EXCEPT !.context =
                        generate_jsonld_context(XSDGenerator_init(parser),
                                                options.include_docs, options.include_enums,
                                                options.include_schema, options.shacl_file_url)]
    /\ parser' = AfterRender(parser, XSDGenerator_init(parser))
    /\ UNCHANGED <<doc_text, enum_data, xsd_file, options, pc, requests>>

\* XSDGenerator(parser).generate_jsonld_schema(include_docs, include_enums)
GenerateJsonldSchema ==
    /\ pc = "parsed"
    /\ rendered' = [rendered EXCEPT !.schema =
                        generate_jsonld_schema(XSDGenerator_init(parser),
                                               options.include_docs, options.include_enums)]
    /\ parser' = AfterRender(parser, XSDGenerator_init(parser))
    /\ UNCHANGED <<doc_text, enum_data, xsd_file, options, pc, requests>>

\* the next call of a wrapper
NewRequest ==
    /\ pc = "parsed"
    /\ requests < MaxRequests
    /\ xsd_file' \in RequestDocuments
    /\ options' \in RequestOptions
    /\ parser' = RequestParser(parser)
    /\ pc' = "constructed"
    /\ rendered' = NoneRendered
    /\ requests' = requests + 1
    /\ UNCHANGED <<doc_text, enum_data>>

NextRequests ==
    \/ Parse
    \/ GenerateJsonldContext
    \/ GenerateJsonldSchema
    \/ GenerateShaclShapes
    \/ GenerateJsonSchema
    \/ NewRequest

SpecRequests == InitRequests /\ [][NextRequests]_vars

(***************************************************************************)
(* Documents for the occurrence bounds and the kinds of property type.     *)
(* A document declares the complex type Record, with one element e and one *)
(* attribute u of the same type, the structured type Part (elements q and *)
(* b, in this order) and the simple type UInt8.                            *)
(* The type of e and u is an XSD primitive, a simple registry              *)
(* type, a structured registry type, a name that nothing declares, or is   *)
(* absent.                                                                 *)
(***************************************************************************)
ItemTypes == {StrV(<<"x", "s", ":", "s", "t", "r", "i", "n", "g">>), StrV(<<"U", "I", "n", "t", "8">>), StrV(<<"P", "a", "r", "t">>), StrV(<<"W", "i", "d", "g", "e", "t">>), NoneV}
ItemMinOccurs == {NoneV, StrV(<<"0">>), StrV(<<"2">>)}
ItemMaxOccurs == {NoneV, StrV(<<"3">>), StrV(<<"u", "n", "b", "o", "u", "n", "d", "e", "d">>)}
ItemDocs == {NoneV, StrV(<<"A", " ", "n", "o", "t", "e">>)}

ItemElement(type, min_occurs, max_occurs, doc) ==
    Node("element",
         [NoAttrs EXCEPT !.name = StrV(<<"e">>), !.type = type,
                         !.minOccurs = min_occurs, !.maxOccurs = max_occurs],
         Annotated(doc))
ItemAttribute(type) == Node("attribute", [NoAttrs EXCEPT !.name = StrV(<<"u">>), !.type = type], <<>>)

ItemDocument(type, min_occurs, max_occurs, doc) ==
    Schema(<<Node("complexType", [NoAttrs EXCEPT !.name = StrV(<<"R", "e", "c", "o", "r", "d">>)],
                  <<Node("other", NoAttrs, <<ItemElement(type, min_occurs, max_occurs, doc)>>),
                    ItemAttribute(type)>>),
             ComplexType(<<"P", "a", "r", "t">>, <<Element(<<"q">>, <<"x", "s", ":", "s", "t", "r", "i", "n", "g">>, NoneV), Element(<<"b">>, <<"x", "s", ":", "s", "t", "r", "i", "n", "g">>, NoneV)>>, <<>>)>>
           \o Declarations(<<"U", "I", "n", "t", "8">>))

ItemDocuments ==
    {ItemDocument(type, min_occurs, max_occurs, doc) :
        type \in ItemTypes, min_occurs \in ItemMinOccurs,
        max_occurs \in ItemMaxOccurs, doc \in ItemDocs}

InitItems ==
    /\ InterpreterIdle
    /\ xsd_file \in ItemDocuments
    /\ options \in OptionSets
    /\ parser = XSDParser_init(options.base_uri)
    /\ pc = "constructed"
    /\ rendered = NoneRendered
    /\ requests = 1

SpecItems == InitItems /\ [][Next]_vars

\* the four renderers on the documents of the occurrence bounds
SpecItemRequests == InitItems /\ [][NextRequests]_vars

(***************************************************************************)
(* Sources of a conversion: texts that are not well-formed XML, well-      *)
(* formed documents under a root that is not xs:schema, and schemas with   *)
(* and without a target namespace, whose declarations carry all of the     *)
(* optional attributes or none of them.  The caller gives the parser a     *)
(* base URI or none.                                                       *)
(***************************************************************************)
SourceNamespaces == {NoneV, StrV(<<"u", "r", "n", ":", "i", "e", "e", "e", ":", "s", "t", "d", ":", "2", "0", "3", "0", ".", "5", ":", "n", "s">>), StrV(<<"h", "t", "t", "p", ":", "/", "/", "e", "x", "a", "m", "p", "l", "e", ".", "o", "r", "g", "/", "n", "s">>)}
SourceBaseUris == {NoneV, StrV(<<"h", "t", "t", "p", "s", ":", "/", "/", "e", "x", "a", "m", "p", "l", "e", ".", "o", "r", "g", "/", "s", "e", "p", "/">>), StrV(<<"u", "r", "n", ":", "e", "x", "a", "m", "p", "l", "e", ":", "s", "e", "p">>)}
SourceRoots == {"schema", "other"}

\* Record with an element and an attribute that carry no optional attribute
BareDeclarations ==
    <<Node("complexType", [NoAttrs EXCEPT !.name = StrV(<<"R", "e", "c", "o", "r", "d">>)],
           <<Node("other", NoAttrs, <<Node("element", [NoAttrs EXCEPT !.name = StrV(<<"e">>)], <<>>)>>),
             Node("attribute", [NoAttrs EXCEPT !.name = StrV(<<"u">>)], <<>>)>>)>>
\* Record with an element and an attribute that carry all of them
FullDeclarations ==
    <<Node("complexType", [NoAttrs EXCEPT !.name = StrV(<<"R", "e", "c", "o", "r", "d">>)],
           <<Node("other", NoAttrs,
                  <<Node("element",
                         [NoAttrs EXCEPT !.name = StrV(<<"e">>), !.type = StrV(<<"x", "s", ":", "s", "t", "r", "i", "n", "g">>),
                                         !.minOccurs = StrV(<<"0">>), !.maxOccurs = StrV(<<"3">>)],
                         <<>>)>>),
             Node("attribute",
                  [NoAttrs EXCEPT !.name = StrV(<<"u">>), !.type = StrV(<<"U", "I", "n", "t", "8">>),
                                  !.use = StrV(<<"r", "e", "q", "u", "i", "r", "e", "d">>), !.default = StrV(<<"1">>)],
                  <<>>)>>)>>
    \o Declarations(<<"U", "I", "n", "t", "8">>)

\* a text that ET.parse rejects
MalformedDocument == StrV(<<"<", "x", "s", ":", "s", "c", "h", "e", "m", "a", ">">>)

SourceDocument(root, namespace, declarations) ==
    Node(root, [NoAttrs EXCEPT !.targetNamespace = namespace], declarations)

SourceDocuments ==
    {MalformedDocument}
        \cup {SourceDocument(root, namespace, declarations) :
                 root \in SourceRoots, namespace \in SourceNamespaces,
                 declarations \in {BareDeclarations, FullDeclarations}}

SourceOptions ==
    [include_docs : {TRUE}, include_enums : {TRUE}, include_schema : {TRUE},
     shacl_file_url : {NoneV}, base_uri : SourceBaseUris, wadl_file : {NoneV}]

InitSources ==
    /\ InterpreterIdle
    /\ xsd_file \in SourceDocuments
    /\ options \in SourceOptions
    /\ parser = XSDParser_init(options.base_uri)
    /\ pc = "constructed"
    /\ rendered = NoneRendered
    /\ requests = 1

SpecSources == InitSources /\ [][NextRequests]_vars

(***************************************************************************)
(* Documents with inheritance.  The complex type Derived extends a base:   *)
(* the registry type Record, written with or without the xs: prefix, the   *)
(* simple registry type Mode, a name that nothing declares, or an XSD      *)
(* primitive.  Mode is a restriction with documentation and facets.        *)
(***************************************************************************)
BaseNames == {StrV(<<"R", "e", "c", "o", "r", "d">>), StrV(<<"x", "s", ":", "R", "e", "c", "o", "r", "d">>), StrV(<<"M", "o", "d", "e">>), StrV(<<"W", "i", "d", "g", "e", "t">>), StrV(<<"x", "s", ":", "s", "t", "r", "i", "n", "g">>)}

DerivedDocument(base, doc) ==
    Schema(<<Node("complexType", [NoAttrs EXCEPT !.name = StrV(<<"D", "e", "r", "i", "v", "e", "d">>)],
                  Annotated(doc)
                  \o <<Node("other", NoAttrs,
                            <<Node("extension", [NoAttrs EXCEPT !.base = base],
                                   <<Node("other", NoAttrs, <<Element(<<"x">>, <<"x", "s", ":", "s", "t", "r", "i", "n", "g">>, NoneV)>>)>>)>>)>>),
             ComplexType(<<"R", "e", "c", "o", "r", "d">>, <<Element(<<"e">>, <<"x", "s", ":", "s", "t", "r", "i", "n", "g">>, NoneV)>>, <<>>)>>
           \o Declarations(<<"M", "o", "d", "e">>))

DerivedDocuments == {DerivedDocument(base, doc) : base \in BaseNames, doc \in ItemDocs}

InitBases ==
    /\ InterpreterIdle
    /\ xsd_file \in DerivedDocuments
    /\ options \in RequestOptions
    /\ parser = XSDParser_init(options.base_uri)
    /\ pc = "constructed"
    /\ rendered = NoneRendered
    /\ requests = 1

SpecBases == InitBases /\ [][NextRequests]_vars

(***************************************************************************)
(* Documents with two declarations of the type name Twin.  Each is a       *)
(* complex type (with one element) or a simple type (a restriction); the   *)
(* second is declared at the top level or inside an element of the         *)
(* complex type Outer.                                                     *)
(***************************************************************************)
TwinComplex(field) == ComplexType(<<"T", "w", "i", "n">>, <<Element(field, <<"x", "s", ":", "s", "t", "r", "i", "n", "g">>, NoneV)>>, <<>>)
TwinSimple(base) == SimpleType(<<"T", "w", "i", "n">>, base, NoneV, <<>>)
FirstTwins == {TwinComplex(<<"f">>), TwinSimple(<<"x", "s", ":", "i", "n", "t">>)}
SecondTwins == {TwinComplex(<<"g">>), TwinSimple(<<"x", "s", ":", "s", "t", "r", "i", "n", "g">>)}
Nested(declaration) ==
    Node("complexType", [NoAttrs EXCEPT !.name = StrV(<<"O", "u", "t", "e", "r">>)],
         <<Node("other", NoAttrs,
                <<Node("element", [NoAttrs EXCEPT !.name = StrV(<<"o">>)], <<declaration>>)>>)>>)

TwinDocument(first, second, nested) ==
    Schema(<<first, IF nested THEN Nested(second) ELSE second>>)

TwinDocuments ==
    {TwinDocument(first, second, nested) :
        first \in FirstTwins, second \in SecondTwins, nested \in BOOLEAN}

InitTwins ==
    /\ InterpreterIdle
    /\ xsd_file \in TwinDocuments
    /\ options \in RequestOptions
    /\ parser = XSDParser_init(options.base_uri)
    /\ pc = "constructed"
    /\ rendered = NoneRendered
    /\ requests = 1

SpecTwins == InitTwins /\ [][NextRequests]_vars

(***************************************************************************)
(* converters/core/wadl_parser.py: WADLParser                              *)
(*                                                                         *)
(* A WADL document is a tree of nodes as an XSD document is; its nodes     *)
(* carry the attributes of WADL.                                           *)
(***************************************************************************)
BoolV(b) == [b |-> b]
IsBool(v) == "b" \in DOMAIN v

NoWadlAttrs == [id |-> NoneV, name |-> NoneV, samplePath |-> NoneV, sampleBase |-> NoneV,
                mode |-> NoneV, mediaType |-> NoneV, element |-> NoneV, status |-> NoneV,
                style |-> NoneV, type |-> NoneV, required |-> NoneV, title |-> NoneV]

\* d.get(k) of a dict
DictGet(items, k) == IF DictHas(items, k) THEN DictAt(items, k) ELSE NoneV

\* c.upper()
UpperChar(c) ==
    IF \E n \in 1..26 : LowerCase[n] = c
    THEN UpperCase[CHOOSE n \in 1..26 : LowerCase[n] = c]
    ELSE c
Upper(s) == [n \in 1..Len(s) |-> UpperChar(s[n])]

\* the text of a value in an f-string
FStr(v) == IF IsNone(v) THEN <<"N", "o", "n", "e">> ELSE v.s

WADLParser_init == [resources |-> <<>>, base_url |-> NoneV]

\* the first descendant of the tag, or None
FindFirst(n, tag) == IF FindAll(n, tag) = <<>> THEN NoneV ELSE Head(FindAll(n, tag))

representation_info(repr_elem) ==
    DictV(<<Item(StrV(<<"m", "e", "d", "i", "a", "T", "y", "p", "e">>), repr_elem.attrs.mediaType),
            Item(StrV(<<"e", "l", "e", "m", "e", "n", "t">>), repr_elem.attrs.element)>>)

param_info(param_elem) ==
    DictV(<<Item(StrV(<<"n", "a", "m", "e">>), param_elem.attrs.name),
            Item(StrV(<<"s", "t", "y", "l", "e">>), param_elem.attrs.style),
            Item(StrV(<<"t", "y", "p", "e">>), param_elem.attrs.type),
            Item(StrV(<<"r", "e", "q", "u", "i", "r", "e", "d">>),
                 BoolV(GetOr(param_elem.attrs.required, StrV(<<"f", "a", "l", "s", "e">>)) = StrV(<<"t", "r", "u", "e">>)))>>
          \o IF IsNone(FindFirst(param_elem, "doc")) THEN <<>>
             ELSE <<Item(StrV(<<"d", "e", "s", "c", "r", "i", "p", "t", "i", "o", "n">>), FindFirst(param_elem, "doc").text)>>)

extract_request_response(elem, is_request) ==
    DictV(<<Item(StrV(<<"r", "e", "p", "r", "e", "s", "e", "n", "t", "a", "t", "i", "o", "n", "s">>),
                 ListV([n \in 1..Len(FindAll(elem, "representation")) |->
                           representation_info(FindAll(elem, "representation")[n])])),
            Item(StrV(<<"p", "a", "r", "a", "m", "e", "t", "e", "r", "s">>),
                 ListV(IF is_request
                       THEN [n \in 1..Len(FindAll(elem, "param")) |->
                                param_info(FindAll(elem, "param")[n])]
                       ELSE <<>>))>>)

response_info(response_elem) ==
    DictV(Append(extract_request_response(response_elem, FALSE).d,
                 Item(StrV(<<"s", "t", "a", "t", "u", "s">>), GetOr(response_elem.attrs.status, StrV(<<"2", "0", "0">>)))))

extract_method_info(method_elem) ==
    DictV(<<Item(StrV(<<"i", "d">>), method_elem.attrs.id),
            Item(StrV(<<"n", "a", "m", "e">>), method_elem.attrs.name),
            Item(StrV(<<"m", "o", "d", "e">>), method_elem.attrs.mode),
            Item(StrV(<<"r", "e", "q", "u", "e", "s", "t">>),
                 IF IsNone(FindFirst(method_elem, "request")) THEN NoneV
                 ELSE extract_request_response(FindFirst(method_elem, "request"), TRUE)),
            Item(StrV(<<"r", "e", "s", "p", "o", "n", "s", "e", "s">>),
                 ListV([n \in 1..Len(FindAll(method_elem, "response")) |->
                           response_info(FindAll(method_elem, "response")[n])]))>>)

sample_param_info(param) ==
    DictV(<<Item(StrV(<<"n", "a", "m", "e">>), param.attrs.name),
            Item(StrV(<<"s", "t", "y", "l", "e">>), param.attrs.style),
            Item(StrV(<<"t", "y", "p", "e">>), param.attrs.type)>>)

extract_resource_info(resource_elem) ==
    DictV(<<Item(StrV(<<"i", "d">>), resource_elem.attrs.id),
            Item(StrV(<<"p", "a", "t", "h">>), GetOr(resource_elem.attrs.samplePath, StrV(<<>>))),
            Item(StrV(<<"t", "i", "t", "l", "e">>),
                 IF IsNone(FindFirst(resource_elem, "doc")) THEN NoneV
                 ELSE FindFirst(resource_elem, "doc").attrs.title),
            Item(StrV(<<"d", "e", "s", "c", "r", "i", "p", "t", "i", "o", "n">>),
                 IF IsNone(FindFirst(resource_elem, "doc")) THEN NoneV
                 ELSE FindFirst(resource_elem, "doc").text),
            Item(StrV(<<"m", "e", "t", "h", "o", "d", "s">>),
                 ListV([n \in 1..Len(FindAll(resource_elem, "method")) |->
                           extract_method_info(FindAll(resource_elem, "method")[n])])),
            Item(StrV(<<"p", "a", "r", "a", "m", "e", "t", "e", "r", "s">>),
                 ListV([n \in 1..Len(FindAll(resource_elem, "sampleParam")) |->
                           sample_param_info(FindAll(resource_elem, "sampleParam")[n])]))>>)

\* WADLParser.parse, on the root of the document
WADLParser_parse(self, root) ==
    [self EXCEPT !.base_url = IF IsNone(FindFirst(root, "resources")) THEN @
                              ELSE PyOr(FindFirst(root, "resources").attrs.sampleBase,
                                        StrV(<<"h", "t", "t", "p", ":", "/", "/", "l", "o", "c", "a", "l", "h", "o", "s", "t", "/", "s", "e", "p", "/">>)),
                 !.resources = @ \o [n \in 1..Len(FindAll(root, "resource")) |->
                                        extract_resource_info(FindAll(root, "resource")[n])]]

(***************************************************************************)
(* converters/openapi/__init__.py: generate_openapi_spec, called without   *)
(* an output file and without the JSON-LD context                          *)
(***************************************************************************)
\* fix_refs(obj)
RECURSIVE fix_refs(_)
fix_refs(obj) ==
    CASE IsDict(obj) ->
           DictV([n \in 1..Len(obj.d) |->
                     IF obj.d[n].k = StrV(<<"$", "r", "e", "f">>) /\ StartsWith(obj.d[n].v.s, <<"#", "/", "d", "e", "f", "i", "n", "i", "t", "i", "o", "n", "s", "/">>)
                     THEN Item(obj.d[n].k,
                               StrV(Replace(obj.d[n].v.s, <<"#", "/", "d", "e", "f", "i", "n", "i", "t", "i", "o", "n", "s", "/">>, <<"#", "/", "c", "o", "m", "p", "o", "n", "e", "n", "t", "s", "/", "s", "c", "h", "e", "m", "a", "s", "/">>)))
                     ELSE Item(obj.d[n].k, fix_refs(obj.d[n].v))])
      [] IsList(obj) -> ListV([n \in 1..Len(obj.l) |-> fix_refs(obj.l[n])])
      [] OTHER -> obj

SupportedMethods == {<<"g", "e", "t">>, <<"p", "o", "s", "t">>, <<"p", "u", "t">>, <<"d", "e", "l", "e", "t", "e">>, <<"p", "a", "t", "c", "h">>, <<"h", "e", "a", "d">>, <<"o", "p", "t", "i", "o", "n", "s">>}

\* a content schema that refers to the element whether or not it has a schema
content_schema_unchecked(repr_info, schemas) ==
    IF Truthy(StrV(Replace(DictAt(repr_info.d, StrV(<<"e", "l", "e", "m", "e", "n", "t">>)).s, <<"s", "e", "p", ":">>, <<>>)))
    THEN DictV(<<Item(StrV(<<"$", "r", "e", "f">>),
                      StrV(<<"#", "/", "c", "o", "m", "p", "o", "n", "e", "n", "t", "s", "/", "s", "c", "h", "e", "m", "a", "s", "/">>
                           \o Replace(DictAt(repr_info.d, StrV(<<"e", "l", "e", "m", "e", "n", "t">>)).s, <<"s", "e", "p", ":">>, <<>>)))>>)
    ELSE DictV(<<Item(StrV(<<"t", "y", "p", "e">>), StrV(<<"o", "b", "j", "e", "c", "t">>))>>)

\* the content of a request body or of a response: one entry for each
\* representation; the element of a representation is read with
\* .get('element', '').replace, which a representation without the attribute fails
content_schema(repr_info, schemas) ==
    IF Truthy(StrV(Replace(DictAt(repr_info.d, StrV(<<"e", "l", "e", "m", "e", "n", "t">>)).s, <<"s", "e", "p", ":">>, <<>>)))
       /\ DictHas(schemas, StrV(Replace(DictAt(repr_info.d, StrV(<<"e", "l", "e", "m", "e", "n", "t">>)).s, <<"s", "e", "p", ":">>, <<>>)))
    THEN DictV(<<Item(StrV(<<"$", "r", "e", "f">>),
                      StrV(<<"#", "/", "c", "o", "m", "p", "o", "n", "e", "n", "t", "s", "/", "s", "c", "h", "e", "m", "a", "s", "/">>
                           \o Replace(DictAt(repr_info.d, StrV(<<"e", "l", "e", "m", "e", "n", "t">>)).s, <<"s", "e", "p", ":">>, <<>>)))>>)
    ELSE DictV(<<Item(StrV(<<"t", "y", "p", "e">>), StrV(<<"o", "b", "j", "e", "c", "t">>))>>)

ElementIsAbsent(representations) ==
    \E n \in 1..Len(representations) : IsNone(DictAt(representations[n].d, StrV(<<"e", "l", "e", "m", "e", "n", "t">>)))

content(representations, schemas) ==
    DictV(FoldL(LAMBDA c, repr_info :
                    DictSet(c, DictAt(repr_info.d, StrV(<<"m", "e", "d", "i", "a", "T", "y", "p", "e">>)),
                            DictV(<<Item(StrV(<<"s", "c", "h", "e", "m", "a">>), content_schema(repr_info, schemas))>>)),
                <<>>, representations))

\* the request body of POST, PUT and PATCH
request_body(operation, method_name, method, schemas) ==
    IF method_name \in {<<"p", "o", "s", "t">>, <<"p", "u", "t">>, <<"p", "a", "t", "c", "h">>}
       /\ Truthy(DictAt(method.d, StrV(<<"r", "e", "q", "u", "e", "s", "t">>)))
       /\ Truthy(DictAt(DictAt(method.d, StrV(<<"r", "e", "q", "u", "e", "s", "t">>)).d, StrV(<<"r", "e", "p", "r", "e", "s", "e", "n", "t", "a", "t", "i", "o", "n", "s">>)))
    THEN DictSet(operation, StrV(<<"r", "e", "q", "u", "e", "s", "t", "B", "o", "d", "y">>),
                 DictV(<<Item(StrV(<<"r", "e", "q", "u", "i", "r", "e", "d">>), BoolV(TRUE)),
                         Item(StrV(<<"c", "o", "n", "t", "e", "n", "t">>),
                              content(DictAt(DictAt(method.d, StrV(<<"r", "e", "q", "u", "e", "s", "t">>)).d,
                                             StrV(<<"r", "e", "p", "r", "e", "s", "e", "n", "t", "a", "t", "i", "o", "n", "s">>)).l, schemas))>>))
    ELSE operation

response_def(response, schemas) ==
    DictV(<<Item(StrV(<<"d", "e", "s", "c", "r", "i", "p", "t", "i", "o", "n">>),
                 StrV(FStr(DictAt(response.d, StrV(<<"s", "t", "a", "t", "u", "s">>))) \o <<" ", "r", "e", "s", "p", "o", "n", "s", "e">>))>>
          \o IF Truthy(DictAt(response.d, StrV(<<"r", "e", "p", "r", "e", "s", "e", "n", "t", "a", "t", "i", "o", "n", "s">>)))
             THEN <<Item(StrV(<<"c", "o", "n", "t", "e", "n", "t">>),
                         content(DictAt(response.d, StrV(<<"r", "e", "p", "r", "e", "s", "e", "n", "t", "a", "t", "i", "o", "n", "s">>)).l, schemas))>>
             ELSE <<>>)

\* responses that hold the declared statuses only
responses_declared(operation, method, schemas) ==
    DictSet(operation, StrV(<<"r", "e", "s", "p", "o", "n", "s", "e", "s">>),
            DictV(FoldL(LAMBDA r, response :
                            DictSet(r, DictAt(response.d, StrV(<<"s", "t", "a", "t", "u", "s">>)),
                                    response_def(response, schemas)),
                        <<>>, DictAt(method.d, StrV(<<"r", "e", "s", "p", "o", "n", "s", "e", "s">>)).l)))

responses(operation, method, schemas) ==
    DictSet(operation, StrV(<<"r", "e", "s", "p", "o", "n", "s", "e", "s">>),
            IF Truthy(DictAt(method.d, StrV(<<"r", "e", "s", "p", "o", "n", "s", "e", "s">>)))
            THEN DictV(FoldL(LAMBDA r, response :
                                 DictSet(r, DictAt(response.d, StrV(<<"s", "t", "a", "t", "u", "s">>)),
                                         response_def(response, schemas)),
                             <<>>, DictAt(method.d, StrV(<<"r", "e", "s", "p", "o", "n", "s", "e", "s">>)).l))
            ELSE DictV(<<Item(StrV(<<"2", "0", "0">>),
                              DictV(<<Item(StrV(<<"d", "e", "s", "c", "r", "i", "p", "t", "i", "o", "n">>), StrV(<<"S", "u", "c", "c", "e", "s", "s">>))>>))>>))

\* the definition of a declared parameter of a GET request
param_def(param) ==
    DictV(<<Item(StrV(<<"n", "a", "m", "e">>), DictAt(param.d, StrV(<<"n", "a", "m", "e">>))),
            Item(StrV(<<"i", "n">>), DictAt(param.d, StrV(<<"s", "t", "y", "l", "e">>))),
            Item(StrV(<<"r", "e", "q", "u", "i", "r", "e", "d">>), DictAt(param.d, StrV(<<"r", "e", "q", "u", "i", "r", "e", "d">>))),
            Item(StrV(<<"s", "c", "h", "e", "m", "a">>),
                 DictV(<<Item(StrV(<<"t", "y", "p", "e">>),
                              IF Contains(DictAt(param.d, StrV(<<"t", "y", "p", "e">>)).s, <<"i", "n", "t">>)
                              THEN StrV(<<"i", "n", "t", "e", "g", "e", "r">>) ELSE StrV(<<"s", "t", "r", "i", "n", "g">>))>>))>>
          \o IF Truthy(DictGet(param.d, StrV(<<"d", "e", "s", "c", "r", "i", "p", "t", "i", "o", "n">>)))
             THEN <<Item(StrV(<<"d", "e", "s", "c", "r", "i", "p", "t", "i", "o", "n">>), DictAt(param.d, StrV(<<"d", "e", "s", "c", "r", "i", "p", "t", "i", "o", "n">>)))>>
             ELSE <<>>)

\* the declared parameters of the request of a method
DeclaredParameters(method) ==
    IF Truthy(DictAt(method.d, StrV(<<"r", "e", "q", "u", "e", "s", "t">>)))
    THEN DictAt(DictAt(method.d, StrV(<<"r", "e", "q", "u", "e", "s", "t">>)).d, StrV(<<"p", "a", "r", "a", "m", "e", "t", "e", "r", "s">>)).l
    ELSE <<>>

query_parameters(operation, method_name, method) ==
    IF method_name = <<"g", "e", "t">> /\ DeclaredParameters(method) # <<>>
    THEN DictSet(operation, StrV(<<"p", "a", "r", "a", "m", "e", "t", "e", "r", "s">>),
                 ListV([n \in 1..Len(DeclaredParameters(method)) |->
                           param_def(DeclaredParameters(method)[n])]))
    ELSE operation

\* 'int' in param.get('type', '') fails on a parameter declared without a type
ParamTypeIsAbsent(method_name, method) ==
    /\ method_name = <<"g", "e", "t">>
    /\ \E n \in 1..Len(DeclaredParameters(method)) :
           IsNone(DictAt(DeclaredParameters(method)[n].d, StrV(<<"t", "y", "p", "e">>)))

\* \w of re
IsWordChar(c) ==
    IsDigit(c) \/ c = "_" \/ \E n \in 1..26 : UpperCase[n] = c \/ LowerCase[n] = c
RECURSIVE WordRun(_)
WordRun(s) == IF s # <<>> /\ IsWordChar(Head(s)) THEN 1 + WordRun(Tail(s)) ELSE 0

\* re.findall(r'\{(\w+)\}', path)
RECURSIVE path_param_matches(_), MatchAt(_, _)
path_param_matches(path) ==
    IF path = <<>> THEN <<>>
    ELSE IF Head(path) = "{" THEN MatchAt(path, WordRun(Tail(path)))
    ELSE path_param_matches(Tail(path))
\* the match at an opening brace that n word characters follow
MatchAt(path, n) ==
    IF n > 0 /\ Len(path) >= n + 2 /\ path[n + 2] = "}"
    THEN <<SubSeq(path, 2, n + 1)>> \o path_param_matches(From(path, n + 2))
    ELSE path_param_matches(Tail(path))

path_param(param_name) ==
    DictV(<<Item(StrV(<<"n", "a", "m", "e">>), StrV(param_name)),
            Item(StrV(<<"i", "n">>), StrV(<<"p", "a", "t", "h">>)),
            Item(StrV(<<"r", "e", "q", "u", "i", "r", "e", "d">>), BoolV(TRUE)),
            Item(StrV(<<"s", "c", "h", "e", "m", "a">>), DictV(<<Item(StrV(<<"t", "y", "p", "e">>), StrV(<<"s", "t", "r", "i", "n", "g">>))>>))>>)

\* the path parameters are left out when the operation has parameters already
path_parameters_unless_declared(operation, path) ==
    IF path_param_matches(path) # <<>> /\ ~ DictHas(operation, StrV(<<"p", "a", "r", "a", "m", "e", "t", "e", "r", "s">>))
    THEN DictSet(operation, StrV(<<"p", "a", "r", "a", "m", "e", "t", "e", "r", "s">>),
                 ListV([n \in 1..Len(path_param_matches(path)) |->
                           path_param(path_param_matches(path)[n])]))
    ELSE operation

\* the path parameters of the resource path, after the declared parameters
path_parameters(operation, path) ==
    IF path_param_matches(path) # <<>>
    THEN DictSet(operation, StrV(<<"p", "a", "r", "a", "m", "e", "t", "e", "r", "s">>),
                 ListV((IF DictHas(operation, StrV(<<"p", "a", "r", "a", "m", "e", "t", "e", "r", "s">>))
                        THEN DictAt(operation, StrV(<<"p", "a", "r", "a", "m", "e", "t", "e", "r", "s">>)).l ELSE <<>>)
                       \o [n \in 1..Len(path_param_matches(path)) |->
                              path_param(path_param_matches(path)[n])]))
    ELSE operation

\* the operation of a supported method of a resource
Operation(resource, method, method_name, path, schemas) ==
    DictV(path_parameters(
            query_parameters(
              responses(
                request_body(
                  <<Item(StrV(<<"o", "p", "e", "r", "a", "t", "i", "o", "n", "I", "d">>), DictAt(method.d, StrV(<<"i", "d">>))),
                    Item(StrV(<<"s", "u", "m", "m", "a", "r", "y">>),
                         StrV(Upper(method_name) \o <<" ">> \o FStr(DictAt(resource.d, StrV(<<"i", "d">>))))),
                    Item(StrV(<<"t", "a", "g", "s">>), ListV(<<DictAt(resource.d, StrV(<<"i", "d">>))>>))>>
                  \o IF Truthy(DictAt(resource.d, StrV(<<"d", "e", "s", "c", "r", "i", "p", "t", "i", "o", "n">>)))
                     THEN <<Item(StrV(<<"d", "e", "s", "c", "r", "i", "p", "t", "i", "o", "n">>), DictAt(resource.d, StrV(<<"d", "e", "s", "c", "r", "i", "p", "t", "i", "o", "n">>)))>>
                     ELSE <<>>,
                  method_name, method, schemas),
                method, schemas),
              method_name, method),
            path))

\* path of the resource, with its leading slash
resource_path(resource) ==
    IF StartsWith(DictAt(resource.d, StrV(<<"p", "a", "t", "h">>)).s, <<"/">>)
    THEN DictAt(resource.d, StrV(<<"p", "a", "t", "h">>)).s
    ELSE <<"/">> \o DictAt(resource.d, StrV(<<"p", "a", "t", "h">>)).s

\* what stops the composition of an operation with an exception
OperationFails(method) ==
    \/ IsNone(DictAt(method.d, StrV(<<"n", "a", "m", "e">>)))
    \/ /\ Lower(DictAt(method.d, StrV(<<"n", "a", "m", "e">>)).s) \in SupportedMethods
       /\ \/ /\ Lower(DictAt(method.d, StrV(<<"n", "a", "m", "e">>)).s) \in {<<"p", "o", "s", "t">>, <<"p", "u", "t">>, <<"p", "a", "t", "c", "h">>}
             /\ Truthy(DictAt(method.d, StrV(<<"r", "e", "q", "u", "e", "s", "t">>)))
             /\ ElementIsAbsent(DictAt(DictAt(method.d, StrV(<<"r", "e", "q", "u", "e", "s", "t">>)).d,
                                       StrV(<<"r", "e", "p", "r", "e", "s", "e", "n", "t", "a", "t", "i", "o", "n", "s">>)).l)
          \/ \E n \in 1..Len(DictAt(method.d, StrV(<<"r", "e", "s", "p", "o", "n", "s", "e", "s">>)).l) :
                 ElementIsAbsent(DictAt(DictAt(method.d, StrV(<<"r", "e", "s", "p", "o", "n", "s", "e", "s">>)).l[n].d,
                                        StrV(<<"r", "e", "p", "r", "e", "s", "e", "n", "t", "a", "t", "i", "o", "n", "s">>)).l)
          \/ ParamTypeIsAbsent(Lower(DictAt(method.d, StrV(<<"n", "a", "m", "e">>)).s), method)

\* the path item after the methods of the resource
path_item(item, resource, path, schemas) ==
    FoldL(LAMBDA i, method :
              IF Lower(DictAt(method.d, StrV(<<"n", "a", "m", "e">>)).s) \in SupportedMethods
              THEN DictSet(i, StrV(Lower(DictAt(method.d, StrV(<<"n", "a", "m", "e">>)).s)),
                           Operation(resource, method, Lower(DictAt(method.d, StrV(<<"n", "a", "m", "e">>)).s),
                                     path, schemas))
              ELSE i,
          item, DictAt(resource.d, StrV(<<"m", "e", "t", "h", "o", "d", "s">>)).l)

\* openapi["paths"] after the resources of the WADL
paths(resources, schemas) ==
    FoldL(LAMBDA p, resource :
              DictSet(p, StrV(resource_path(resource)),
                      DictV(path_item(IF DictHas(p, StrV(resource_path(resource)))
                                      THEN DictAt(p, StrV(resource_path(resource))).d ELSE <<>>,
                                      resource, resource_path(resource), schemas))),
          <<>>, resources)

\* the methods of all the resources, in the order of the composition
AllMethods(resources) ==
    FoldL(LAMBDA ms, resource : ms \o DictAt(resource.d, StrV(<<"m", "e", "t", "h", "o", "d", "s">>)).l, <<>>, resources)

CompositionFails(resources) ==
    \E m \in 1..Len(AllMethods(resources)) : OperationFails(AllMethods(resources)[m])

\* the exception of the first method that fails: TypeError of the test on the
\* type of a parameter, AttributeError of the calls on None
OperationError(method) ==
    IF OperationFails([d |-> DictSet(method.d, StrV(<<"r", "e", "q", "u", "e", "s", "t">>), NoneV)])
    THEN ExcV("AttributeError")
    ELSE IF ParamTypeIsAbsent(Lower(DictAt(method.d, StrV(<<"n", "a", "m", "e">>)).s), method)
            /\ ~ (/\ Lower(DictAt(method.d, StrV(<<"n", "a", "m", "e">>)).s) \in {<<"p", "o", "s", "t">>, <<"p", "u", "t">>, <<"p", "a", "t", "c", "h">>}
                  /\ ElementIsAbsent(DictAt(DictAt(method.d, StrV(<<"r", "e", "q", "u", "e", "s", "t">>)).d,
                                            StrV(<<"r", "e", "p", "r", "e", "s", "e", "n", "t", "a", "t", "i", "o", "n", "s">>)).l))
    THEN ExcV("TypeError")
    ELSE ExcV("AttributeError")
CompositionError(resources) ==
    OperationError(AllMethods(resources)[CHOOSE m \in 1..Len(AllMethods(resources)) :
                      /\ OperationFails(AllMethods(resources)[m])
                      /\ \A k \in 1..(m - 1) : ~ OperationFails(AllMethods(resources)[k])])

servers(wadl_parser) ==
    IF Truthy(wadl_parser.base_url)
    THEN ListV(<<DictV(<<Item(StrV(<<"u", "r", "l">>), StrV(RStripSet(wadl_parser.base_url.s, {"/"}))),
                         Item(StrV(<<"d", "e", "s", "c", "r", "i", "p", "t", "i", "o", "n">>), StrV(<<"I", "E", "E", "E", " ", "2", "0", "3", "0", ".", "5", " ", "A", "P", "I", " ", "S", "e", "r", "v", "e", "r">>))>>)>>)
    ELSE ListV(<<DictV(<<Item(StrV(<<"u", "r", "l">>), StrV(<<"h", "t", "t", "p", "s", ":", "/", "/", "a", "p", "i", ".", "e", "x", "a", "m", "p", "l", "e", ".", "c", "o", "m">>)),
                         Item(StrV(<<"d", "e", "s", "c", "r", "i", "p", "t", "i", "o", "n">>), StrV(<<"P", "r", "o", "d", "u", "c", "t", "i", "o", "n", " ", "s", "e", "r", "v", "e", "r">>))>>)>>)

info(wadl_file, api_title, api_version) ==
    DictV(<<Item(StrV(<<"t", "i", "t", "l", "e">>), api_title),
            Item(StrV(<<"v", "e", "r", "s", "i", "o", "n">>), api_version),
            Item(StrV(<<"d", "e", "s", "c", "r", "i", "p", "t", "i", "o", "n">>),
                 StrV(<<"A", "P", "I", " ", "s", "p", "e", "c", "i", "f", "i", "c", "a", "t", "i", "o", "n", " ", "g", "e", "n", "e", "r", "a", "t", "e", "d", " ", "f", "r", "o", "m", " ", "I", "E", "E", "E", " ", "2", "0", "3", "0", ".", "5", " ", "X", "S", "D", " ", "s", "c", "h", "e", "m", "a">>
                      \o (IF IsNone(wadl_file) THEN <<>> ELSE <<" ", "a", "n", "d", " ", "W", "A", "D", "L">>)
                      \o <<".", " ", "T", "h", "i", "s", " ", "O", "p", "e", "n", "A", "P", "I", " ", "s", "p", "e", "c", " ", "v", "a", "l", "i", "d", "a", "t", "e", "s", " ", "J", "S", "O", "N", " ", "s", "t", "r", "u", "c", "t", "u", "r", "e", ".", " ", "F", "o", "r", " ", "J", "S", "O", "N", "-", "L", "D", " ", "s", "e", "m", "a", "n", "t", "i", "c", " ", "v", "a", "l", "i", "d", "a", "t", "i", "o", "n", ",", " ", "u", "s", "e", " ", "S", "H", "A", "C", "L", " ", "s", "h", "a", "p", "e", "s", ".">>)),
            Item(StrV(<<"c", "o", "n", "t", "a", "c", "t">>),
                 DictV(<<Item(StrV(<<"n", "a", "m", "e">>), StrV(<<"I", "E", "E", "E", " ", "2", "0", "3", "0", ".", "5">>)),
                         Item(StrV(<<"u", "r", "l">>), StrV(<<"h", "t", "t", "p", "s", ":", "/", "/", "s", "t", "a", "n", "d", "a", "r", "d", "s", ".", "i", "e", "e", "e", ".", "o", "r", "g", "/", "i", "e", "e", "e", "/", "2", "0", "3", "0", ".", "5", "/">>))>>))>>)

\* the document, from the JSON-Schema document and the parsed WADL
openapi_document(json_schema, wadl_file, wadl_parser, api_title, api_version) ==
    IF IsExc(json_schema) THEN json_schema
    ELSE IF CompositionFails(wadl_parser.resources) THEN CompositionError(wadl_parser.resources)
    ELSE DictV(<<Item(StrV(<<"o", "p", "e", "n", "a", "p", "i">>), StrV(<<"3", ".", "0", ".", "0">>)),
                 Item(StrV(<<"i", "n", "f", "o">>), info(wadl_file, api_title, api_version)),
                 Item(StrV(<<"s", "e", "r", "v", "e", "r", "s">>), servers(wadl_parser)),
                 Item(StrV(<<"p", "a", "t", "h", "s">>),
                      DictV(paths(wadl_parser.resources,
                                  fix_refs(DictAt(json_schema.d, StrV(<<"d", "e", "f", "i", "n", "i", "t", "i", "o", "n", "s">>))).d))),
                 Item(StrV(<<"c", "o", "m", "p", "o", "n", "e", "n", "t", "s">>),
                      DictV(<<Item(StrV(<<"s", "c", "h", "e", "m", "a", "s">>),
                                   fix_refs(DictAt(json_schema.d, StrV(<<"d", "e", "f", "i", "n", "i", "t", "i", "o", "n", "s">>))))>>))>>)

generate_openapi_spec(xsd_root, wadl_file, api_title, api_version, include_docs, include_enums) ==
    openapi_document(generate_json_schema(XSDGenerator_init(parse(XSDParser_init(NoneV), xsd_root)),
                                          include_docs, include_enums),
                     wadl_file,
                     IF IsNone(wadl_file) THEN WADLParser_init
                     ELSE WADLParser_parse(WADLParser_init, wadl_file),
                     api_title, api_version)

(***************************************************************************)
(* OpenAPI composition: one call of generate_openapi_spec on an XSD and a  *)
(* WADL document.  The WADL declares a resource with one method; the       *)
(* resource may hold a second resource, and the method a request.          *)
(***************************************************************************)
WadlPaths == {StrV(<<"/", "e", "d", "e", "v", "/", "{", "m", "r", "i", "d", "}">>), StrV(<<"e", "d", "e", "v", "/", "{", "i", "d", "1", "}", "/", "f", "s", "a", "/", "{", "i", "d", "2", "}">>), StrV(<<"/", "d", "c", "a", "p">>),
              StrV(<<"/", "t", "m", "/", "{", "}">>), NoneV}
WadlMethods == {StrV(<<"G", "E", "T">>), StrV(<<"P", "o", "s", "t">>), StrV(<<"T", "R", "A", "C", "E">>)}
WadlBases == {NoneV, StrV(<<"h", "t", "t", "p", "s", ":", "/", "/", "h", "o", "s", "t", "/", "s", "e", "p", "/">>)}

Representation(element) ==
    Node("representation",
             [NoWadlAttrs EXCEPT !.mediaType = StrV(<<"a", "p", "p", "l", "i", "c", "a", "t", "i", "o", "n", "/", "s", "e", "p", "+", "x", "m", "l">>), !.element = StrV(element)],
             <<>>)
Param(name, type) ==
    Node("param",
             [NoWadlAttrs EXCEPT !.name = StrV(name), !.style = StrV(<<"q", "u", "e", "r", "y">>), !.type = type,
                                 !.required = StrV(<<"t", "r", "u", "e">>)],
             <<>>)

\* the children of a method: no request, a request without parameters, a
\* request with a parameter, with a parameter that has no type
WadlRequests ==
    {<<>>,
     <<Node("request", NoWadlAttrs, <<Representation(<<"s", "e", "p", ":", "P", "a", "r", "t">>)>>)>>,
     <<Node("request", NoWadlAttrs, <<Param(<<"s">>, StrV(<<"x", "s", ":", "u", "n", "s", "i", "g", "n", "e", "d", "I", "n", "t">>)), Param(<<"l">>, StrV(<<"x", "s", ":", "s", "t", "r", "i", "n", "g">>))>>)>>,
     <<Node("request", NoWadlAttrs, <<Param(<<"s">>, NoneV)>>)>>}

Response(status) ==
    Node("response", [NoWadlAttrs EXCEPT !.status = status], <<Representation(<<"G", "a", "d", "g", "e", "t">>)>>)

\* the responses of a method: none, one without a status, two with statuses
WadlResponses ==
    {<<>>, <<Response(NoneV)>>, <<Response(StrV(<<"2", "0", "1">>)), Response(StrV(<<"4", "0", "4">>))>>}

Method(name, request, declared) ==
    Node("method", [NoWadlAttrs EXCEPT !.name = name, !.id = StrV(<<"m", "1">>)],
             request \o declared)

\* the resource held by the first one; its method declares no response
InnerResource ==
    Node("resource", [NoWadlAttrs EXCEPT !.id = StrV(<<"I", "n", "n", "e", "r">>), !.samplePath = StrV(<<"/", "i", "n", "/", "{", "i", "d", "9", "}">>)],
             <<Method(StrV(<<"D", "E", "L", "E", "T", "E">>), <<>>, <<>>)>>)

WadlFile(base, path, name, request, declared, nested) ==
    Node("application", NoWadlAttrs,
             <<Node("resources", [NoWadlAttrs EXCEPT !.sampleBase = base],
                        <<Node("resource",
                                   [NoWadlAttrs EXCEPT !.id = StrV(<<"E", "n", "d", "D", "e", "v", "i", "c", "e">>), !.samplePath = path],
                                   <<Method(name, request, declared)>>
                                   \o IF nested THEN <<InnerResource>> ELSE <<>>)>>)>>)

WadlFiles ==
    {WadlFile(base, path, name, request, declared, nested) :
        base \in WadlBases, path \in WadlPaths, name \in WadlMethods,
        request \in WadlRequests, declared \in WadlResponses, nested \in BOOLEAN}

PathOptions ==
    [include_docs : {TRUE}, include_enums : {TRUE}, include_schema : {TRUE},
     shacl_file_url : {NoneV}, base_uri : {NoneV}, wadl_file : WadlFiles]

\* the XSD of a composition: the properties of Record are strings, or refer
\* to the structured type Part
PathDocuments ==
    {ItemDocument(StrV(<<"x", "s", ":", "s", "t", "r", "i", "n", "g">>), NoneV, NoneV, NoneV),
     ItemDocument(StrV(<<"P", "a", "r", "t">>), NoneV, NoneV, NoneV)}

InitPaths ==
    /\ InterpreterIdle
    /\ xsd_file \in PathDocuments
    /\ options \in PathOptions
    /\ parser = NoneV
    /\ pc = "requested"
    /\ rendered = NoneRendered
    /\ requests = 1

\* generate_openapi_spec(xsd_file, wadl_file): the wrapper builds its parser,
\* parses, renders the JSON Schema and composes the document
GenerateOpenapiSpec ==
    /\ pc = "requested"
    /\ parser' = AfterRender(parse(XSDParser_init(NoneV), xsd_file),
                           XSDGenerator_init(parse(XSDParser_init(NoneV), xsd_file)))
    /\ pc' = "parsed"
    /\ rendered' = [rendered EXCEPT !.openapi =
                        generate_openapi_spec(xsd_file, options.wadl_file,
                                              StrV(<<"I", "E", "E", "E", " ", "2", "0", "3", "0", ".", "5", " ", "A", "P", "I">>), StrV(<<"1", ".", "0", ".", "0">>),
                                              options.include_docs, options.include_enums)]
    /\ UNCHANGED <<doc_text, enum_data, xsd_file, options, requests>>

NextPaths == GenerateOpenapiSpec

SpecPaths == InitPaths /\ [][NextPaths]_vars

(***************************************************************************)
(* The renderers and the OpenAPI composition together: the requests of     *)
(* SpecRequests and the compositions of SpecPaths, with every renderer     *)
(* callable once a document is parsed.                                     *)
(***************************************************************************)
InitCompositions == InitRequests \/ InitPaths

NextCompositions ==
    \/ Parse
    \/ GenerateJsonldContext
    \/ GenerateJsonldSchema
    \/ GenerateShaclShapes
    \/ GenerateJsonSchema
    \/ GenerateOpenapiSpec
    \/ NewRequest

SpecCompositions == InitCompositions /\ [][NextCompositions]_vars

(***************************************************************************)
(* Properties of the renderers.  The documents of Spec declare one         *)
(* structured type, Holder, with the element p and the attribute a of one  *)
(* property type.                                                          *)
(***************************************************************************)
\* the generator of the request and a generator built from nothing but the
\* document of the request
Generator == XSDGenerator_init(parser)
FreshGenerator == XSDGenerator_init(parse(XSDParser_init(NoneV), xsd_file))

\* the entry of Holder in the registry, and its n-th property: p, then a
HolderInfo == DictAt(parser.types, StrV(<<"H", "o", "l", "d", "e", "r">>))
PropertyName(n) == IF n = 1 THEN StrV(<<"p">>) ELSE StrV(<<"a">>)
PropertyInfo(n) == IF n = 1 THEN HolderInfo.elements[1] ELSE HolderInfo.attributes[1]

\* the name of the property type without the xs: prefix, and the base that
\* the registry records for a name (empty when it records none)
StripXs(name) == IF StartsWith(name, <<"x", "s", ":">>) THEN From(name, 3) ELSE name
TypeName == StripXs(HolderInfo.elements[1].type.s)
BaseName(name) ==
    IF DictHas(parser.types, StrV(name)) /\ IsStr(DictAt(parser.types, StrV(name)).restriction)
    THEN StripXs(DictAt(parser.types, StrV(name)).restriction.s)
    ELSE <<>>

\* the property shapes of HolderShape, and what a shape says under a key
PropertyShapes ==
    IF IsDict(rendered.shacl)
    THEN DictAt(DictAt(rendered.shacl.d, StrV(<<"@", "g", "r", "a", "p", "h">>)).l[1].d, StrV(<<"s", "h", ":", "p", "r", "o", "p", "e", "r", "t", "y">>)).l
    ELSE <<>>
Carries(shape, key) == DictHas(shape.d, StrV(key))
ValueOf(shape, key) == DictAt(shape.d, StrV(key))

\* the property schemas of Holder, and what the schema of the n-th property
\* says under a key
JsonProperties ==
    IF IsDict(rendered.json_schema)
    THEN DictAt(DictAt(DictAt(rendered.json_schema.d, StrV(<<"d", "e", "f", "i", "n", "i", "t", "i", "o", "n", "s">>)).d, StrV(<<"H", "o", "l", "d", "e", "r">>)).d,
                StrV(<<"p", "r", "o", "p", "e", "r", "t", "i", "e", "s">>)).d
    ELSE <<>>
JsonHas(n, key) ==
    /\ DictHas(JsonProperties, PropertyName(n))
    /\ DictHas(DictAt(JsonProperties, PropertyName(n)).d, StrV(key))
JsonValue(n, key) == DictAt(DictAt(JsonProperties, PropertyName(n)).d, StrV(key))

\* the enum values and ranges resolved for the n-th property by each renderer
ShaclResolved(n) ==
    IF n = 1 THEN ShaclElemEnums(Generator, PropertyInfo(1)) ELSE ShaclAttrEnums(Generator, PropertyInfo(2))
JsonResolved(n) ==
    IF n = 1 THEN JsonElemEnums(Generator, PropertyInfo(1), options.include_enums)
    ELSE JsonAttrEnums(Generator, PropertyInfo(2), options.include_enums)

C3_RenderersAgreeOnEnum ==
    (options.include_enums /\ IsDict(rendered.shacl) /\ IsDict(rendered.json_schema))
        => \A n \in 1..Len(PropertyShapes) :
               ~ JsonHas(n, <<"x", "-", "b", "i", "t", "-", "p", "o", "s", "i", "t", "i", "o", "n", "s">>)
                   => /\ Carries(PropertyShapes[n], <<"s", "h", ":", "i", "n">>) <=> JsonHas(n, <<"e", "n", "u", "m">>)
                      /\ (Carries(PropertyShapes[n], <<"s", "h", ":", "i", "n">>) /\ JsonHas(n, <<"e", "n", "u", "m">>))
                             => ValueOf(PropertyShapes[n], <<"s", "h", ":", "i", "n">>) = JsonValue(n, <<"e", "n", "u", "m">>)

\* the element typed OnOff with a range of its own: sh:in from the type's
\* values in the shape, no enum in the schema
C3_ShInWithoutEnum ==
    /\ options.include_enums
    /\ Len(PropertyShapes) = 2
    /\ TypeName = <<"O", "n", "O", "f", "f">>
    /\ Carries(PropertyShapes[1], <<"s", "h", ":", "i", "n">>)
    /\ JsonHas(1, <<"t", "y", "p", "e">>)
    /\ ~ JsonHas(1, <<"e", "n", "u", "m">>)
    /\ ~ JsonHas(1, <<"x", "-", "b", "i", "t", "-", "p", "o", "s", "i", "t", "i", "o", "n", "s">>)

\* the enumeration facets of the n-th simpleType declaration of the document,
\* and the enumValues that the registry holds for the declared name
SimpleTypes == FindAll(xsd_file, "simpleType")
FacetsOf(n) == FindAll(SimpleTypes[n], "enumeration")
RegistryEnumValues(n) == DictAt(parser.types, SimpleTypes[n].attrs.name).enum_values

\* C4: enumValues of a simpleType restriction with enumeration facets holds
\* exactly one entry per facet, keyed by the facet's value: values read from
\* the documentation are not merged in
C4_EnumValuesAreTheFacets ==
    pc = "parsed"
        => \A n \in 1..Len(SimpleTypes) :
               FacetsOf(n) # <<>>
                   => /\ IsDict(RegistryEnumValues(n))
                      /\ Len(RegistryEnumValues(n).d) = Len(FacetsOf(n))
                      /\ \A m \in 1..Len(FacetsOf(n)) :
                             DictHas(RegistryEnumValues(n).d, FacetsOf(n)[m].attrs.value)

\* Mode, documented "1 = legacy" with the facets on and off: three entries
C4_DocumentationEntryMerged ==
    /\ pc = "parsed"
    /\ DictHas(parser.types, StrV(<<"M", "o", "d", "e">>))
    /\ DictKeys(DictAt(parser.types, StrV(<<"M", "o", "d", "e">>)).enum_values.d) = <<StrV(<<"1">>), StrV(<<"o", "n">>), StrV(<<"o", "f", "f">>)>>

\* the enum values {"0": "Off", "1": "On"}
OnOffValues == DictV(<<Item(StrV(<<"0">>), StrV(<<"O", "f", "f">>)), Item(StrV(<<"1">>), StrV(<<"O", "n">>))>>)

\* the property type is unsignedByte or restricts it, directly or through
\* one declared type
DerivedFromUnsignedByte ==
    \/ TypeName = <<"u", "n", "s", "i", "g", "n", "e", "d", "B", "y", "t", "e">>
    \/ BaseName(TypeName) = <<"u", "n", "s", "i", "g", "n", "e", "d", "B", "y", "t", "e">>
    \/ BaseName(BaseName(TypeName)) = <<"u", "n", "s", "i", "g", "n", "e", "d", "B", "y", "t", "e">>

\* C7: an unsignedByte-derived property with the resolved enum values
\* {"0": "Off", "1": "On"} and no ranges gets sh:in = [0, 1] with integer
\* members, and neither sh:minInclusive nor sh:maxInclusive
C7_OnOffGetsShInAndNoBounds ==
    \A n \in 1..Len(PropertyShapes) :
        (DerivedFromUnsignedByte /\ ShaclResolved(n)[1] = OnOffValues /\ ~ Truthy(ShaclResolved(n)[2]))
            => /\ Carries(PropertyShapes[n], <<"s", "h", ":", "i", "n">>)
               /\ ValueOf(PropertyShapes[n], <<"s", "h", ":", "i", "n">>) = ListV(<<IntLit(<<"0">>), IntLit(<<"1">>)>>)
               /\ ~ Carries(PropertyShapes[n], <<"s", "h", ":", "m", "i", "n", "I", "n", "c", "l", "u", "s", "i", "v", "e">>)
               /\ ~ Carries(PropertyShapes[n], <<"s", "h", ":", "m", "a", "x", "I", "n", "c", "l", "u", "s", "i", "v", "e">>)

\* the attribute typed OnOff: sh:in = [0, 1] together with the bounds 0 and 255
C7_OnOffGetsShInAndBounds ==
    /\ Len(PropertyShapes) = 2
    /\ TypeName = <<"O", "n", "O", "f", "f">>
    /\ Carries(PropertyShapes[2], <<"s", "h", ":", "i", "n">>)
    /\ ValueOf(PropertyShapes[2], <<"s", "h", ":", "i", "n">>) = ListV(<<IntLit(<<"0">>), IntLit(<<"1">>)>>)
    /\ Carries(PropertyShapes[2], <<"s", "h", ":", "m", "i", "n", "I", "n", "c", "l", "u", "s", "i", "v", "e">>)
    /\ ValueOf(PropertyShapes[2], <<"s", "h", ":", "m", "i", "n", "I", "n", "c", "l", "u", "s", "i", "v", "e">>) = IntLit(<<"0">>)
    /\ Carries(PropertyShapes[2], <<"s", "h", ":", "m", "a", "x", "I", "n", "c", "l", "u", "s", "i", "v", "e">>)
    /\ ValueOf(PropertyShapes[2], <<"s", "h", ":", "m", "a", "x", "I", "n", "c", "l", "u", "s", "i", "v", "e">>) = IntLit(<<"2", "5", "5">>)

\* the largest value of the unsigned 8-, 16- and 32-bit families (empty for a
\* name of no family)
FamilyBound(name) ==
    IF name \in {<<"U", "I", "n", "t", "8">>, <<"u", "n", "s", "i", "g", "n", "e", "d", "B", "y", "t", "e">>} THEN <<"2", "5", "5">>
    ELSE IF name \in {<<"U", "I", "n", "t", "1", "6">>, <<"u", "n", "s", "i", "g", "n", "e", "d", "S", "h", "o", "r", "t">>} THEN <<"6", "5", "5", "3", "5">>
    ELSE IF name \in {<<"U", "I", "n", "t", "3", "2">>, <<"u", "n", "s", "i", "g", "n", "e", "d", "I", "n", "t">>} THEN <<"4", "2", "9", "4", "9", "6", "7", "2", "9", "5">>
    ELSE <<>>

\* the bound of the property type's family, else of its base's family
ExpectedBound ==
    IF FamilyBound(TypeName) # <<>> THEN FamilyBound(TypeName) ELSE FamilyBound(BaseName(TypeName))

BitValues == DictV(<<Item(StrV(<<"0">>), StrV(<<"B", "i", "t", "A">>)), Item(StrV(<<"1">>), StrV(<<"B", "i", "t", "B">>))>>)
BitAB == DictV(<<Item(IntLit(<<"0">>), StrV(<<"B", "i", "t", "A">>)), Item(IntLit(<<"1">>), StrV(<<"B", "i", "t", "B">>))>>)

\* the documentation of the n-th property or that of its registry type
\* contains the word
Mentions(doc, word) == IsStr(doc) /\ Contains(Lower(doc.s), word)
PropertyMentions(n, word) ==
    \/ Mentions(PropertyInfo(n).documentation, word)
    \/ /\ DictHas(parser.types, StrV(TypeName))
       /\ Mentions(DictAt(parser.types, StrV(TypeName)).documentation, word)

\* the pattern of at most count hex characters
HexPattern(count) == StrV(<<"^", "[", "0", "-", "9", "A", "-", "F", "a", "-", "f", "]", "{", "1", ",">> \o count \o <<"}", "$">>)

\* C9: with documentation and enumerations included, a property typed
\* HexBinary32 or by a type derived from it, documented as a bitmap and with
\* the enum values {"0": "BitA", "1": "BitB"}, has no enum in its schema, has
\* x-bit-positions = {0: "BitA", 1: "BitB"} and the pattern of 1 to 8 hex
\* characters
C9_Bitmap32GetsPositionsAndPattern ==
    (options.include_docs /\ options.include_enums /\ IsDict(rendered.json_schema))
        => \A n \in 1..2 :
               (/\ TypeName = <<"H", "e", "x", "B", "i", "n", "a", "r", "y", "3", "2">> \/ BaseName(TypeName) = <<"H", "e", "x", "B", "i", "n", "a", "r", "y", "3", "2">>
                /\ PropertyMentions(n, <<"b", "i", "t", "m", "a", "p">>)
                /\ JsonResolved(n)[1] = BitValues)
                   => /\ ~ JsonHas(n, <<"e", "n", "u", "m">>)
                      /\ JsonHas(n, <<"x", "-", "b", "i", "t", "-", "p", "o", "s", "i", "t", "i", "o", "n", "s">>)
                      /\ JsonValue(n, <<"x", "-", "b", "i", "t", "-", "p", "o", "s", "i", "t", "i", "o", "n", "s">>) = BitAB
                      /\ JsonHas(n, <<"p", "a", "t", "t", "e", "r", "n">>)
                      /\ JsonValue(n, <<"p", "a", "t", "t", "e", "r", "n">>) = HexPattern(<<"8">>)

\* the element typed HexBinary32 itself: the bit positions without a pattern
C9_DirectlyTypedLacksPattern ==
    /\ options.include_docs /\ options.include_enums
    /\ IsDict(rendered.json_schema)
    /\ TypeName = <<"H", "e", "x", "B", "i", "n", "a", "r", "y", "3", "2">>
    /\ JsonHas(1, <<"x", "-", "b", "i", "t", "-", "p", "o", "s", "i", "t", "i", "o", "n", "s">>)
    /\ JsonValue(1, <<"x", "-", "b", "i", "t", "-", "p", "o", "s", "i", "t", "i", "o", "n", "s">>) = BitAB
    /\ ~ JsonHas(1, <<"e", "n", "u", "m">>)
    /\ ~ JsonHas(1, <<"p", "a", "t", "t", "e", "r", "n">>)

\* the hex characters of each declared width
WidthTable ==
    <<[base |-> <<"H", "e", "x", "B", "i", "n", "a", "r", "y", "8">>, count |-> <<"2">>], [base |-> <<"H", "e", "x", "B", "i", "n", "a", "r", "y", "1", "6">>, count |-> <<"4">>],
      [base |-> <<"H", "e", "x", "B", "i", "n", "a", "r", "y", "3", "2">>, count |-> <<"8">>], [base |-> <<"H", "e", "x", "B", "i", "n", "a", "r", "y", "4", "8">>, count |-> <<"1", "2">>],
      [base |-> <<"H", "e", "x", "B", "i", "n", "a", "r", "y", "6", "4">>, count |-> <<"1", "6">>], [base |-> <<"H", "e", "x", "B", "i", "n", "a", "r", "y", "1", "6", "0">>, count |-> <<"4", "0">>]>>

\* C10: the pattern of a bitmask property allows at most 2, 4, 8, 12, 16, 40
\* hex characters for the declared width 8, 16, 32, 48, 64, 160
C10_PatternFollowsWidthTable ==
    IsDict(rendered.json_schema)
        => \A n \in 1..2, w \in 1..Len(WidthTable) :
               (JsonHas(n, <<"x", "-", "b", "i", "t", "-", "p", "o", "s", "i", "t", "i", "o", "n", "s">>) /\ BaseName(TypeName) = WidthTable[w].base)
                   => /\ JsonHas(n, <<"p", "a", "t", "t", "e", "r", "n">>)
                      /\ JsonValue(n, <<"p", "a", "t", "t", "e", "r", "n">>) = HexPattern(WidthTable[w].count)

\* a bitmask of width 160 with the pattern of width 16
C10_Width160GetsFour ==
    /\ IsDict(rendered.json_schema)
    /\ BaseName(TypeName) = <<"H", "e", "x", "B", "i", "n", "a", "r", "y", "1", "6", "0">>
    /\ JsonHas(1, <<"x", "-", "b", "i", "t", "-", "p", "o", "s", "i", "t", "i", "o", "n", "s">>)
    /\ JsonHas(1, <<"p", "a", "t", "t", "e", "r", "n">>)
    /\ JsonValue(1, <<"p", "a", "t", "t", "e", "r", "n">>) = HexPattern(<<"4">>)

(***************************************************************************)
(* Properties of the renderers on the documents of SpecItems.              *)
(***************************************************************************)
\* the entry of Record in the registry and what parse recorded for its
\* element e
RecordInfo == DictAt(parser.types, StrV(<<"R", "e", "c", "o", "r", "d">>))
RecordElement == RecordInfo.elements[1]

\* the property schemas of Record, and the schema of e where there is one
RecordProperties ==
    IF IsDict(rendered.json_schema)
    THEN DictAt(DictAt(DictAt(rendered.json_schema.d, StrV(<<"d", "e", "f", "i", "n", "i", "t", "i", "o", "n", "s">>)).d, StrV(<<"R", "e", "c", "o", "r", "d">>)).d,
                StrV(<<"p", "r", "o", "p", "e", "r", "t", "i", "e", "s">>)).d
    ELSE <<>>
HasSchema(name) == DictHas(RecordProperties, StrV(name))
SchemaOf(name) == DictAt(RecordProperties, StrV(name)).d
SchemaSays(name, key, value) ==
    DictHas(SchemaOf(name), StrV(key)) /\ DictAt(SchemaOf(name), StrV(key)) = value

\* maxOccurs is "unbounded" or an integer greater than 1
IsPlural(max_occurs) ==
    max_occurs.s = <<"u", "n", "b", "o", "u", "n", "d", "e", "d">> \/ (IsDigitStr(max_occurs.s) /\ DecVal(max_occurs.s) > 1)

\* C11: the schema of a property with maxOccurs "unbounded" or an integer
\* greater than 1 is {type: array, items: ...}, with minItems exactly when
\* minOccurs > 0 and maxItems exactly when maxOccurs is an integer, whatever
\* the item schema is ($ref included); otherwise the schema is not an array
C11_PluralPropertyIsArray ==
    (IsDict(rendered.json_schema) /\ HasSchema(<<"e">>))
        => IF IsPlural(RecordElement.maxOccurs)
           THEN /\ SchemaSays(<<"e">>, <<"t", "y", "p", "e">>, StrV(<<"a", "r", "r", "a", "y">>))
                /\ DictHas(SchemaOf(<<"e">>), StrV(<<"i", "t", "e", "m", "s">>))
                /\ DictHas(SchemaOf(<<"e">>), StrV(<<"m", "i", "n", "I", "t", "e", "m", "s">>))
                       <=> (IsDigitStr(RecordElement.minOccurs.s) /\ DecVal(RecordElement.minOccurs.s) > 0)
                /\ DictHas(SchemaOf(<<"e">>), StrV(<<"m", "a", "x", "I", "t", "e", "m", "s">>)) <=> IsDigitStr(RecordElement.maxOccurs.s)
           ELSE /\ ~ SchemaSays(<<"e">>, <<"t", "y", "p", "e">>, StrV(<<"a", "r", "r", "a", "y">>))
                /\ ~ DictHas(SchemaOf(<<"e">>), StrV(<<"i", "t", "e", "m", "s">>))

\* the element typed Part with maxOccurs "unbounded": a bare $ref
C11_PluralRefIsNotArray ==
    /\ IsDict(rendered.json_schema)
    /\ RecordElement.type = StrV(<<"P", "a", "r", "t">>)
    /\ RecordElement.maxOccurs = StrV(<<"u", "n", "b", "o", "u", "n", "d", "e", "d">>)
    /\ HasSchema(<<"e">>)
    /\ SchemaSays(<<"e">>, <<"$", "r", "e", "f">>, StrV(<<"#", "/", "d", "e", "f", "i", "n", "i", "t", "i", "o", "n", "s", "/", "P", "a", "r", "t">>))
    /\ ~ DictHas(SchemaOf(<<"e">>), StrV(<<"i", "t", "e", "m", "s">>))

(***************************************************************************)
(* Properties of the JSON-Schema renderer on the documents of Spec.        *)
(***************************************************************************)
\* the described enum values and the ranges resolved for the n-th property
\* of Holder, as the entries of x-enum-descriptions
DescribedValues(n) ==
    IF IsDict(JsonResolved(n)[1])
    THEN SelectSeq(JsonResolved(n)[1].d, LAMBDA it : Truthy(it.v))
    ELSE <<>>
RangeEntries(n) ==
    IF IsList(JsonResolved(n)[2])
    THEN [m \in 1..Len(JsonResolved(n)[2].l) |->
             Item(StrV(IntStr(JsonResolved(n)[2].l[m].start) \o <<" ", "-", " ">>
                       \o IntStr(JsonResolved(n)[2].l[m].end)),
                  JsonResolved(n)[2].l[m].description)]
    ELSE <<>>

\* C12: the schema of every non-bitmask property with described enum values
\* or enum ranges carries x-enum-descriptions with one entry per described
\* value and one "start - end" entry per range, also when the ranges suppress
\* enum and also when there are ranges and no values
C12_EnumDescriptionsAlways ==
    IsDict(rendered.json_schema)
        => \A n \in 1..2 :
               (~ JsonHas(n, <<"x", "-", "b", "i", "t", "-", "p", "o", "s", "i", "t", "i", "o", "n", "s">>)
                /\ DescribedValues(n) \o RangeEntries(n) # <<>>)
                   => /\ JsonHas(n, <<"x", "-", "e", "n", "u", "m", "-", "d", "e", "s", "c", "r", "i", "p", "t", "i", "o", "n", "s">>)
                      /\ JsonValue(n, <<"x", "-", "e", "n", "u", "m", "-", "d", "e", "s", "c", "r", "i", "p", "t", "i", "o", "n", "s">>)
                             = DictV(DescribedValues(n) \o RangeEntries(n))

\* the element typed xs:unsignedByte documented with a range and no value:
\* a schema without x-enum-descriptions
C12_RangesAloneUndescribed ==
    /\ IsDict(rendered.json_schema)
    /\ TypeName = <<"u", "n", "s", "i", "g", "n", "e", "d", "B", "y", "t", "e">>
    /\ IsNone(JsonResolved(1)[1])
    /\ RangeEntries(1) # <<>>
    /\ JsonHas(1, <<"t", "y", "p", "e">>)
    /\ ~ JsonHas(1, <<"x", "-", "e", "n", "u", "m", "-", "d", "e", "s", "c", "r", "i", "p", "t", "i", "o", "n", "s">>)

(***************************************************************************)
(* OpenAPI composition                                                     *)
(***************************************************************************)
\* the resources of the WADL of the request, as the WADL parser extracts them
WadlResources == WADLParser_parse(WADLParser_init, options.wadl_file).resources
MethodsOf(resource) == DictAt(resource.d, StrV(<<"m", "e", "t", "h", "o", "d", "s">>)).l
MethodName(method) == Lower(DictAt(method.d, StrV(<<"n", "a", "m", "e">>)).s)

\* the names between braces in a path
Placeholders(path) ==
    {SubSeq(path, a + 1, b - 1) : <<a, b>> \in
        {ab \in (1..Len(path)) \X (1..Len(path)) :
            /\ ab[1] + 1 < ab[2]
            /\ path[ab[1]] = "{"
            /\ path[ab[2]] = "}"
            /\ \A k \in (ab[1] + 1)..(ab[2] - 1) : path[k] \notin {"{", "}", "/"}}}

Composed == pc = "parsed" /\ IsDict(rendered.openapi)
OpenapiPaths == DictAt(rendered.openapi.d, StrV(<<"p", "a", "t", "h", "s">>)).d
\* the operation of a method of a resource in the document
OperationOf(resource, method) ==
    DictAt(DictAt(OpenapiPaths, StrV(resource_path(resource))).d, StrV(MethodName(method))).d
ParametersOf(operation) ==
    IF DictHas(operation, StrV(<<"p", "a", "r", "a", "m", "e", "t", "e", "r", "s">>)) THEN DictAt(operation, StrV(<<"p", "a", "r", "a", "m", "e", "t", "e", "r", "s">>)).l ELSE <<>>

IsPathParameter(parameter, name) ==
    /\ DictGet(parameter.d, StrV(<<"n", "a", "m", "e">>)) = StrV(name)
    /\ DictGet(parameter.d, StrV(<<"i", "n">>)) = StrV(<<"p", "a", "t", "h">>)
    /\ DictGet(parameter.d, StrV(<<"r", "e", "q", "u", "i", "r", "e", "d">>)) = BoolV(TRUE)
    /\ DictGet(parameter.d, StrV(<<"s", "c", "h", "e", "m", "a">>)) = DictV(<<Item(StrV(<<"t", "y", "p", "e">>), StrV(<<"s", "t", "r", "i", "n", "g">>))>>)
IsDeclaredParameter(parameter, declared) ==
    /\ DictGet(parameter.d, StrV(<<"n", "a", "m", "e">>)) = DictAt(declared.d, StrV(<<"n", "a", "m", "e">>))
    /\ DictGet(parameter.d, StrV(<<"i", "n">>)) = DictAt(declared.d, StrV(<<"s", "t", "y", "l", "e">>))

PlaceholdersAreParameters(resource, method) ==
    /\ \A name \in Placeholders(resource_path(resource)) :
           \E n \in 1..Len(ParametersOf(OperationOf(resource, method))) :
               IsPathParameter(ParametersOf(OperationOf(resource, method))[n], name)
    /\ MethodName(method) = <<"g", "e", "t">> =>
           \A d \in 1..Len(DeclaredParameters(method)) :
               \E n \in 1..Len(ParametersOf(OperationOf(resource, method))) :
                   IsDeclaredParameter(ParametersOf(OperationOf(resource, method))[n],
                                       DeclaredParameters(method)[d])

IsStringSchema(schema) ==
    \/ DictGet(schema, StrV(<<"t", "y", "p", "e">>)) = StrV(<<"s", "t", "r", "i", "n", "g">>)
    \/ /\ DictGet(schema, StrV(<<"t", "y", "p", "e">>)) = StrV(<<"a", "r", "r", "a", "y">>)
       /\ IsDict(DictGet(schema, StrV(<<"i", "t", "e", "m", "s">>)))
       /\ DictGet(DictGet(schema, StrV(<<"i", "t", "e", "m", "s">>)).d, StrV(<<"t", "y", "p", "e">>)) = StrV(<<"s", "t", "r", "i", "n", "g">>)

\* both renderers give the properties e and u of Record as strings
RenderedAsStrings ==
    /\ ~ IsExc(rendered.shacl)
    /\ ~ IsExc(rendered.json_schema)
    /\ IsDict(rendered.shacl) =>
           /\ Len(PropertyShapes) = 2
           /\ \A n \in 1..2 :
                  /\ Carries(PropertyShapes[n], <<"s", "h", ":", "d", "a", "t", "a", "t", "y", "p", "e">>)
                  /\ ValueOf(PropertyShapes[n], <<"s", "h", ":", "d", "a", "t", "a", "t", "y", "p", "e">>) = StrV(<<"x", "s", "d", ":", "s", "t", "r", "i", "n", "g">>)
    /\ IsDict(rendered.json_schema) =>
           \A name \in {<<"e">>, <<"u">>} : HasSchema(name) /\ IsStringSchema(SchemaOf(name))

\* C14: a property whose type name is neither an XSD primitive nor a
\* registry type is still rendered, never dropped and never an error, as a
\* string: sh:datatype xsd:string in its SHACL property shape, type string
\* in its JSON-Schema property schema, listed under the owning type
C14_UnresolvedTypeIsString ==
    (pc = "parsed" /\ RecordElement.type = StrV(<<"W", "i", "d", "g", "e", "t">>)) => RenderedAsStrings

\* the properties typed Widget: shapes without sh:datatype, and no schema
\* for the undocumented element
C14_UnresolvedTypeDropped ==
    /\ pc = "parsed"
    /\ RecordElement.type = StrV(<<"W", "i", "d", "g", "e", "t">>)
    /\ IsDict(rendered.shacl)
    /\ Len(PropertyShapes) = 2
    /\ ~ Carries(PropertyShapes[1], <<"s", "h", ":", "d", "a", "t", "a", "t", "y", "p", "e">>)
    /\ ~ Carries(PropertyShapes[2], <<"s", "h", ":", "d", "a", "t", "a", "t", "y", "p", "e">>)
    /\ IsDict(rendered.json_schema)
    /\ ~ HasSchema(<<"e">>)
    /\ ~ HasSchema(<<"u">>)

(***************************************************************************)
(* Properties declared without a type, on the documents of SpecItems.      *)
(***************************************************************************)
\* C15: for every model that parse produces from a well-formed XSD, a model
\* holding an element or attribute declared without a type included, each
\* of the context, RDF schema, SHACL and JSON-Schema renderers returns a
\* document instead of raising
C15_NoRendererRaises ==
    pc = "parsed" =>
        /\ ~ IsExc(rendered.context)
        /\ ~ IsExc(rendered.schema)
        /\ ~ IsExc(rendered.shacl)
        /\ ~ IsExc(rendered.json_schema)

\* the element and attribute of Record declared without a type: the context
\* and the RDF schema are documents, the SHACL and the JSON-Schema renderer
\* raised AttributeError
C15_TypelessPropertyRaises ==
    /\ pc = "parsed"
    /\ DictHas(parser.types, StrV(<<"R", "e", "c", "o", "r", "d">>))
    /\ IsNone(RecordElement.type)
    /\ IsDict(rendered.context)
    /\ IsDict(rendered.schema)
    /\ rendered.shacl = ExcV("AttributeError")
    /\ rendered.json_schema = ExcV("AttributeError")

(***************************************************************************)
(* Properties of parse on the sources of SpecSources.                      *)
(***************************************************************************)
\* the document is well-formed XML under a root xs:schema
HasSchemaRoot(document) == "tag" \in DOMAIN document /\ document.tag = "schema"
ParseEnded == pc \in {"parsed", "failed"}

\* C16: parse fails with a ParseError, and yields no model, exactly when the
\* document is not well-formed XML or is well-formed without a root schema
\* element; a missing optional attribute (minOccurs, maxOccurs, use,
\* default, type, targetNamespace) never makes it fail
C16_ParseFailsExactlyWithoutSchemaRoot ==
    ParseEnded =>
        /\ pc = "failed" <=> ~ HasSchemaRoot(xsd_file)
        /\ pc = "failed" => (parser.types = <<>> /\ parser.elements = <<>>)

\* a well-formed document under a root that is not xs:schema: parse ended
\* without an error and registered the type it found below the root
C16_NonSchemaRootParsed ==
    /\ pc = "parsed"
    /\ ~ HasSchemaRoot(xsd_file)
    /\ DictHas(parser.types, StrV(<<"R", "e", "c", "o", "r", "d">>))

(***************************************************************************)
(* The base URI of the graph renderers on the sources of SpecSources.      *)
(***************************************************************************)
\* the base URI that parse derives from a target namespace
NamespaceBase(namespace) == StrV(Replace(Replace(namespace.s, <<"u", "r", "n", ":">>, <<"h", "t", "t", "p", "s", ":", "/", "/">>), <<":">>, <<"/">>))

\* the base URI of the request: the caller's, else the one of the target
\* namespace, else the built-in default
ExpectedBase ==
    IF Truthy(options.base_uri) THEN options.base_uri
    ELSE IF Truthy(xsd_file.attrs.targetNamespace) THEN NamespaceBase(xsd_file.attrs.targetNamespace)
    ELSE StrV(<<"h", "t", "t", "p", "s", ":", "/", "/", "s", "c", "h", "e", "m", "a", "s", ".", "i", "e", "e", "e", ".", "o", "r", "g", "/", "2", "0", "3", "0", ".", "5", "/">>)

\* the @vocab of a rendered graph document
Vocab(document) == DictAt(DictAt(document.d, StrV(<<"@", "c", "o", "n", "t", "e", "x", "t">>)).d, StrV(<<"@", "v", "o", "c", "a", "b">>))

\* C17: the base URI used by the context, RDF schema and SHACL renderers is
\* the caller's when the caller supplies one, else the one derived from the
\* target namespace when the XSD declares one, and the built-in default only
\* when there is neither
C17_BaseUriFromNamespace ==
    pc = "parsed" =>
        /\ parser.base_uri = ExpectedBase
        /\ IsDict(rendered.context) => Vocab(rendered.context) = ExpectedBase
        /\ IsDict(rendered.schema) => Vocab(rendered.schema) = ExpectedBase
        /\ IsDict(rendered.shacl) => Vocab(rendered.shacl) = ExpectedBase

\* a schema with the target namespace urn:ieee:std:2030.5:ns and no base URI
\* from the caller: the three renderers use the built-in default
C17_DefaultDespiteNamespace ==
    /\ pc = "parsed"
    /\ IsNone(options.base_uri)
    /\ xsd_file.attrs.targetNamespace = StrV(<<"u", "r", "n", ":", "i", "e", "e", "e", ":", "s", "t", "d", ":", "2", "0", "3", "0", ".", "5", ":", "n", "s">>)
    /\ IsDict(rendered.context)
    /\ IsDict(rendered.schema)
    /\ IsDict(rendered.shacl)
    /\ Vocab(rendered.context) = StrV(<<"h", "t", "t", "p", "s", ":", "/", "/", "s", "c", "h", "e", "m", "a", "s", ".", "i", "e", "e", "e", ".", "o", "r", "g", "/", "2", "0", "3", "0", ".", "5", "/">>)
    /\ Vocab(rendered.schema) = StrV(<<"h", "t", "t", "p", "s", ":", "/", "/", "s", "c", "h", "e", "m", "a", "s", ".", "i", "e", "e", "e", ".", "o", "r", "g", "/", "2", "0", "3", "0", ".", "5", "/">>)
    /\ Vocab(rendered.shacl) = StrV(<<"h", "t", "t", "p", "s", ":", "/", "/", "s", "c", "h", "e", "m", "a", "s", ".", "i", "e", "e", "e", ".", "o", "r", "g", "/", "2", "0", "3", "0", ".", "5", "/">>)

(***************************************************************************)
(* Properties of the context renderer on the documents of SpecRequests.    *)
(***************************************************************************)
\* the entries of "@context" in the rendered context document
ContextEntries == DictAt(rendered.context.d, StrV(<<"@", "c", "o", "n", "t", "e", "x", "t">>)).d
IsTerm(name) == DictHas(ContextEntries, StrV(name))
Occurrences(name) == Len(SelectSeq(ContextEntries, LAMBDA entry : entry.k = StrV(name)))

\* the name is a term exactly if include_schema is set, and then once
GatedByIncludeSchema(name) ==
    IF options.include_schema THEN Occurrences(name) = 1 ELSE ~ IsTerm(name)

\* C18: in the context only include_schema gates the property names: with
\* include_schema false the names of the element p and the attribute a of
\* Holder, which are neither type names nor top-level element declarations,
\* are not terms; with include_schema true each is a term, once
C18_IncludeSchemaGatesPropertyNames ==
    IsDict(rendered.context) => (GatedByIncludeSchema(<<"p">>) /\ GatedByIncludeSchema(<<"a">>))

\* a context rendered with include_schema false: the element p of Holder is
\* a term, the attribute a is not
C18_ElementNameWithoutSchema ==
    /\ IsDict(rendered.context)
    /\ ~ options.include_schema
    /\ IsTerm(<<"p">>)
    /\ ~ IsTerm(<<"a">>)

\* the context of the request under the flags docs and enums
ContextUnder(docs, enums) ==
    generate_jsonld_context(Generator, docs, enums, options.include_schema, options.shacl_file_url)

\* C19: include_docs and include_enums do not affect the context: for every
\* model, every include_schema and every SHACL URL, the context rendered
\* under the flags of the request is the document that any other setting of
\* (include_docs, include_enums) gives
C19_ContextIgnoresDocsAndEnums ==
    IsDict(rendered.context) =>
        \A docs \in BOOLEAN : \A enums \in BOOLEAN : ContextUnder(docs, enums) = rendered.context

\* a context rendered with both flags false, with property terms and the
\* SHACL URL: the document of both flags true
C19_SameContextWithoutFlags ==
    /\ IsDict(rendered.context)
    /\ ~ options.include_docs
    /\ ~ options.include_enums
    /\ options.include_schema
    /\ Truthy(options.shacl_file_url)
    /\ IsTerm(<<"a">>)
    /\ rendered.context = ContextUnder(TRUE, TRUE)

\* C20: the context document has the single top-level key "@context"; with
\* a SHACL URL the entry "@shacl" is inside the "@context" mapping, next to
\* "@vocab" and the prefixes, and without one there is no "@shacl" anywhere
C20_ShaclInsideContext ==
    IsDict(rendered.context) =>
        /\ DictKeys(rendered.context.d) = <<StrV(<<"@", "c", "o", "n", "t", "e", "x", "t">>)>>
        /\ IF Truthy(options.shacl_file_url)
           THEN IsTerm(<<"@", "s", "h", "a", "c", "l">>) /\ DictAt(ContextEntries, StrV(<<"@", "s", "h", "a", "c", "l">>)) = options.shacl_file_url
           ELSE ~ IsTerm(<<"@", "s", "h", "a", "c", "l">>)

\* a context rendered with the SHACL URL: "@shacl" is a second top-level
\* key of the document and the "@context" mapping has no such entry
C20_ShaclBesideContext ==
    /\ IsDict(rendered.context)
    /\ Truthy(options.shacl_file_url)
    /\ DictKeys(rendered.context.d) = <<StrV(<<"@", "c", "o", "n", "t", "e", "x", "t">>), StrV(<<"@", "s", "h", "a", "c", "l">>)>>
    /\ DictAt(rendered.context.d, StrV(<<"@", "s", "h", "a", "c", "l">>)) = options.shacl_file_url
    /\ ~ IsTerm(<<"@", "s", "h", "a", "c", "l">>)

(***************************************************************************)
(* The model under the renderers and the composition (SpecCompositions).   *)
(***************************************************************************)
\* the registries right after parse
ParsedTypes == FreshGenerator.types
ParsedElements == FreshGenerator.elements

ShaclGraph == DictAt(rendered.shacl.d, StrV(<<"@", "g", "r", "a", "p", "h">>)).l
\* the registry types with at least one element or attribute, in registry order
ShapedTypes == SelectSeq(parser.types, LAMBDA t : t.v.elements # <<>> \/ t.v.attributes # <<>>)
\* the names of a type's elements, in document order, then of its attributes
MemberNames(type_info) ==
    [n \in 1..Len(type_info.elements) |-> type_info.elements[n].name]
    \o [n \in 1..Len(type_info.attributes) |-> type_info.attributes[n].name]
IdOf(name) == DictV(<<Item(StrV(<<"@", "i", "d">>), name)>>)
\* the sh:path entries of a NodeShape's sh:property list, in order
ShapePaths(shape) ==
    [n \in 1..Len(ValueOf(shape, <<"s", "h", ":", "p", "r", "o", "p", "e", "r", "t", "y">>).l) |->
        ValueOf(ValueOf(shape, <<"s", "h", ":", "p", "r", "o", "p", "e", "r", "t", "y">>).l[n], <<"s", "h", ":", "p", "a", "t", "h">>)]
IsNodeShapeOf(node, t) ==
    /\ ValueOf(node, <<"@", "t", "y", "p", "e">>) = StrV(<<"s", "h", ":", "N", "o", "d", "e", "S", "h", "a", "p", "e">>)
    /\ ValueOf(node, <<"@", "i", "d">>) = StrV(t.k.s \o <<"S", "h", "a", "p", "e">>)
    /\ ValueOf(node, <<"s", "h", ":", "t", "a", "r", "g", "e", "t", "C", "l", "a", "s", "s">>) = IdOf(t.k)
    /\ Carries(node, <<"s", "h", ":", "p", "r", "o", "p", "e", "r", "t", "y">>)
    /\ ShapePaths(node) = [n \in 1..Len(MemberNames(t.v)) |-> IdOf(MemberNames(t.v)[n])]
IsClassNodeOf(node, t) ==
    /\ ValueOf(node, <<"@", "t", "y", "p", "e">>) = StrV(<<"r", "d", "f", "s", ":", "C", "l", "a", "s", "s">>)
    /\ ValueOf(node, <<"@", "i", "d">>) = t.k
NodeKinds == [n \in 1..Len(ShaclGraph) |-> ValueOf(ShaclGraph[n], <<"@", "t", "y", "p", "e">>).s]

\* C22: the SHACL @graph is, in this order, one NodeShape "<Type>Shape"
\* targeting <Type> for each registry type with an element or an attribute
\* (and for no other type), one rdfs:Class node for each registry type, and
\* then only rdf:Property nodes; the sh:property list of a NodeShape names
\* the type's elements in document order and then its attributes
C22_ShaclGraphLayout ==
    IsDict(rendered.shacl) =>
        /\ Len(ShaclGraph) >= Len(ShapedTypes) + Len(parser.types)
        /\ \A n \in 1..Len(ShapedTypes) : IsNodeShapeOf(ShaclGraph[n], ShapedTypes[n])
        /\ \A n \in 1..Len(parser.types) :
               IsClassNodeOf(ShaclGraph[Len(ShapedTypes) + n], parser.types[n])
        /\ \A n \in 1..Len(ShaclGraph) :
               n > Len(ShapedTypes) + Len(parser.types) => NodeKinds[n] = <<"r", "d", "f", ":", "P", "r", "o", "p", "e", "r", "t", "y">>

\* C22 witness: the graph of a document with the structured types Record
\* (element e, attribute u) and Part (elements q, b) and the simple type
\* UInt8: two NodeShapes, three classes, four properties
C22_TwoShapesThreeClasses ==
    /\ IsDict(rendered.shacl)
    /\ DictKeys(parser.types) = <<StrV(<<"R", "e", "c", "o", "r", "d">>), StrV(<<"P", "a", "r", "t">>), StrV(<<"U", "I", "n", "t", "8">>)>>
    /\ NodeKinds = <<<<"s", "h", ":", "N", "o", "d", "e", "S", "h", "a", "p", "e">>, <<"s", "h", ":", "N", "o", "d", "e", "S", "h", "a", "p", "e">>, <<"r", "d", "f", "s", ":", "C", "l", "a", "s", "s">>, <<"r", "d", "f", "s", ":", "C", "l", "a", "s", "s">>, <<"r", "d", "f", "s", ":", "C", "l", "a", "s", "s">>,
                     <<"r", "d", "f", ":", "P", "r", "o", "p", "e", "r", "t", "y">>, <<"r", "d", "f", ":", "P", "r", "o", "p", "e", "r", "t", "y">>, <<"r", "d", "f", ":", "P", "r", "o", "p", "e", "r", "t", "y">>, <<"r", "d", "f", ":", "P", "r", "o", "p", "e", "r", "t", "y">>>>
    /\ ShapePaths(ShaclGraph[1]) = <<IdOf(StrV(<<"e">>)), IdOf(StrV(<<"u">>))>>
    /\ ShapePaths(ShaclGraph[2]) = <<IdOf(StrV(<<"q">>)), IdOf(StrV(<<"b">>))>>

(***************************************************************************)
(* The RDF Schema graph (SpecBases).                                       *)
(***************************************************************************)
SchemaGraph == DictAt(rendered.schema.d, StrV(<<"@", "g", "r", "a", "p", "h">>)).l
\* the base of a registry type is itself a registry type, once the xs:
\* prefix is taken off
BaseIsRegistryType(type_info) ==
    IsStr(type_info.base) /\ DictHas(parser.types, StrV(StripXs(type_info.base.s)))
IsSchemaClassOf(node, t) ==
    /\ ValueOf(node, <<"@", "t", "y", "p", "e">>) = StrV(<<"r", "d", "f", "s", ":", "C", "l", "a", "s", "s">>)
    /\ ValueOf(node, <<"@", "i", "d">>) = StrV(parser.base_uri.s \o t.k.s)
    /\ Carries(node, <<"r", "d", "f", "s", ":", "s", "u", "b", "C", "l", "a", "s", "s", "O", "f">>) <=> BaseIsRegistryType(t.v)
    /\ Carries(node, <<"r", "d", "f", "s", ":", "c", "o", "m", "m", "e", "n", "t">>) => (options.include_docs /\ Truthy(t.v.documentation))
    /\ Carries(node, <<"@", "e", "n", "u", "m">>) => (options.include_enums /\ Truthy(t.v.enum_values))

\* C23: the @graph of the RDF schema holds exactly one rdfs:Class node per
\* registry type and nothing else; a class node has rdfs:subClassOf exactly
\* when the type's base, prefix stripped, is a registry type, rdfs:comment
\* only when documentation is included and present, and @enum only when
\* enumerations are included and the type has enum values
C23_SchemaGraphIsTheClasses ==
    IsDict(rendered.schema) =>
        /\ Len(SchemaGraph) = Len(parser.types)
        /\ \A n \in 1..Len(parser.types) : IsSchemaClassOf(SchemaGraph[n], parser.types[n])

\* C23 witness: Derived extends xs:Record and is rendered with documentation
\* and enumerations: its node is a subclass with a comment, the node of
\* Record is neither, the node of Mode has @enum
C23_DerivedIsSubclassOfRecord ==
    /\ IsDict(rendered.schema)
    /\ options.include_docs
    /\ options.include_enums
    /\ DictKeys(parser.types) = <<StrV(<<"D", "e", "r", "i", "v", "e", "d">>), StrV(<<"R", "e", "c", "o", "r", "d">>), StrV(<<"M", "o", "d", "e">>)>>
    /\ parser.types[1].v.base = StrV(<<"x", "s", ":", "R", "e", "c", "o", "r", "d">>)
    /\ Carries(SchemaGraph[1], <<"r", "d", "f", "s", ":", "s", "u", "b", "C", "l", "a", "s", "s", "O", "f">>)
    /\ Carries(SchemaGraph[1], <<"r", "d", "f", "s", ":", "c", "o", "m", "m", "e", "n", "t">>)
    /\ ~ Carries(SchemaGraph[2], <<"r", "d", "f", "s", ":", "s", "u", "b", "C", "l", "a", "s", "s", "O", "f">>)
    /\ ~ Carries(SchemaGraph[2], <<"r", "d", "f", "s", ":", "c", "o", "m", "m", "e", "n", "t">>)
    /\ Carries(SchemaGraph[3], <<"@", "e", "n", "u", "m">>)
    /\ ~ Carries(SchemaGraph[3], <<"r", "d", "f", "s", ":", "s", "u", "b", "C", "l", "a", "s", "s", "O", "f">>)

(***************************************************************************)
(* Duplicate type names (SpecTwins).                                       *)
(***************************************************************************)
\* the named type declarations of a document, complex and simple, in
\* document order
TypeDeclarations(root) ==
    SelectSeq(Descendants(root),
              LAMBDA m : m.tag \in {"complexType", "simpleType"} /\ Truthy(m.attrs.name))
DeclarationsOf(root, name) == SelectSeq(TypeDeclarations(root), LAMBDA m : m.attrs.name = name)
LastDeclaration(root, name) == DeclarationsOf(root, name)[Len(DeclarationsOf(root, name))]

\* C24: parse ends without an error on a document that declares a type
\* name more than once, and the registry entry of every name is the one
\* extracted from the declaration of that name that occurs last in the
\* document
C24_LastDeclarationWins ==
    /\ (pc # "constructed" /\ "tag" \in DOMAIN xsd_file) => pc = "parsed"
    /\ pc = "parsed" =>
           \A n \in 1..Len(parser.types) :
               parser.types[n].v = extract_type_info(LastDeclaration(xsd_file, parser.types[n].k))

\* a document declares the simple type Twin and, after it, the complex
\* type Twin: the registry holds the entry of the simple type
C24_EarlierSimpleTypeWins ==
    /\ pc = "parsed"
    /\ Len(DeclarationsOf(xsd_file, StrV(<<"T", "w", "i", "n">>))) = 2
    /\ DeclarationsOf(xsd_file, StrV(<<"T", "w", "i", "n">>))[1].tag = "simpleType"
    /\ LastDeclaration(xsd_file, StrV(<<"T", "w", "i", "n">>)).tag = "complexType"
    /\ DictAt(parser.types, StrV(<<"T", "w", "i", "n">>)) = extract_type_info(DeclarationsOf(xsd_file, StrV(<<"T", "w", "i", "n">>))[1])
    /\ DictAt(parser.types, StrV(<<"T", "w", "i", "n">>)).elements = <<>>

(***************************************************************************)
(* Verbs and responses of the OpenAPI composition (SpecPaths).             *)
(***************************************************************************)
HttpVerbs == {<<"g", "e", "t">>, <<"p", "o", "s", "t">>, <<"p", "u", "t">>, <<"d", "e", "l", "e", "t", "e">>, <<"p", "a", "t", "c", "h">>, <<"h", "e", "a", "d">>, <<"o", "p", "t", "i", "o", "n", "s">>}
PathItemOf(resource) == DictAt(OpenapiPaths, StrV(resource_path(resource))).d
DeclaredStatuses(method) ==
    [n \in 1..Len(DictAt(method.d, StrV(<<"r", "e", "s", "p", "o", "n", "s", "e", "s">>)).l) |->
        DictAt(DictAt(method.d, StrV(<<"r", "e", "s", "p", "o", "n", "s", "e", "s">>)).l[n].d, StrV(<<"s", "t", "a", "t", "u", "s">>))]
ResponsesOf(resource, method) == DictAt(OperationOf(resource, method), StrV(<<"r", "e", "s", "p", "o", "n", "s", "e", "s">>)).d
SuccessOnly == <<Item(StrV(<<"2", "0", "0">>), DictV(<<Item(StrV(<<"d", "e", "s", "c", "r", "i", "p", "t", "i", "o", "n">>), StrV(<<"S", "u", "c", "c", "e", "s", "s">>))>>))>>
\* the responses map holds the declared statuses, or the default
ResponsesAsDeclared(resource, method) ==
    /\ ResponsesOf(resource, method) # <<>>
    /\ IF DeclaredStatuses(method) = <<>>
       THEN ResponsesOf(resource, method) = SuccessOnly
       ELSE {ResponsesOf(resource, method)[n].k : n \in 1..Len(ResponsesOf(resource, method))}
                = {DeclaredStatuses(method)[n] : n \in 1..Len(DeclaredStatuses(method))}
VerbIsHandled(resource, method) ==
    IF MethodName(method) \in HttpVerbs
    THEN /\ DictHas(PathItemOf(resource), StrV(MethodName(method)))
         /\ ResponsesAsDeclared(resource, method)
    ELSE ~ DictHas(PathItemOf(resource), StrV(MethodName(method)))
NoSupportedVerb ==
    \A r \in 1..Len(WadlResources) :
        \A m \in 1..Len(MethodsOf(WadlResources[r])) :
            MethodName(MethodsOf(WadlResources[r])[m]) \notin HttpVerbs

ResourceElements == FindAll(options.wadl_file, "resource")
OwnMethods(resource_elem) == SelectSeq(resource_elem.kids, LAMBDA m : m.tag = "method")
OwnMethodInfos(resource_elem) ==
    [n \in 1..Len(OwnMethods(resource_elem)) |-> extract_method_info(OwnMethods(resource_elem)[n])]
OwnVerbs(resource_elem) ==
    {Lower(OwnMethods(resource_elem)[n].attrs.name.s) : n \in 1..Len(OwnMethods(resource_elem))}

\* C26: the WADL parser gives one Resource per resource element, and the
\* method list of a Resource holds the methods that its own element
\* declares and none of a nested resource element, so that the path item
\* of a resource has operations of its own verbs only
C26_ResourceHoldsOwnMethodsOnly ==
    pc = "parsed" =>
        /\ Len(WadlResources) = Len(ResourceElements)
        /\ \A r \in 1..Len(WadlResources) :
               /\ MethodsOf(WadlResources[r]) = OwnMethodInfos(ResourceElements[r])
               /\ Composed =>
                      \A n \in 1..Len(PathItemOf(WadlResources[r])) :
                          PathItemOf(WadlResources[r])[n].k.s \in OwnVerbs(ResourceElements[r])

\* the resource EndDevice holds the resource Inner, whose only method is a
\* DELETE: the Resource of EndDevice lists the DELETE after its own method,
\* and the path item of EndDevice has the operation "delete"
C26_OuterHoldsInnerDelete ==
    /\ Composed
    /\ Len(ResourceElements) = 2
    /\ Len(OwnMethods(ResourceElements[1])) = 1
    /\ Len(MethodsOf(WadlResources[1])) = 2
    /\ MethodsOf(WadlResources[1])[2] = MethodsOf(WadlResources[2])[1]
    /\ MethodName(MethodsOf(WadlResources[2])[1]) = <<"d", "e", "l", "e", "t", "e">>
    /\ DictHas(PathItemOf(WadlResources[1]), StrV(<<"d", "e", "l", "e", "t", "e">>))
    /\ resource_path(WadlResources[1]) # resource_path(WadlResources[2])

(***************************************************************************)
(* Enumerations excluded from the JSON Schema (Spec).                      *)
(***************************************************************************)
\* the schema of the n-th property of Holder says nothing about enumerations
SaysNoEnumeration(n) ==
    /\ ~ JsonHas(n, <<"e", "n", "u", "m">>)
    /\ ~ JsonHas(n, <<"x", "-", "e", "n", "u", "m", "-", "d", "e", "s", "c", "r", "i", "p", "t", "i", "o", "n", "s">>)
    /\ ~ JsonHas(n, <<"x", "-", "b", "i", "t", "-", "p", "o", "s", "i", "t", "i", "o", "n", "s">>)
    /\ JsonHas(n, <<"d", "e", "s", "c", "r", "i", "p", "t", "i", "o", "n">>) => JsonValue(n, <<"d", "e", "s", "c", "r", "i", "p", "t", "i", "o", "n">>) = PropertyInfo(n).documentation

\* C27: a JSON Schema rendered with enumerations excluded carries no
\* enumeration information for any property: no enum, no
\* x-enum-descriptions, no x-bit-positions and no enum text appended to the
\* description, whether the values come from the type of the property or
\* from the documentation of the property itself
C27_ExcludedEnumsLeaveNoTrace ==
    (IsDict(rendered.json_schema) /\ ~ options.include_enums) =>
        \A n \in 1..2 : DictHas(JsonProperties, PropertyName(n)) => SaysNoEnumeration(n)

\* enumerations are excluded and the element p, typed xs:unsignedByte, is
\* documented with "0 = Off / 1 = On": its schema has enum [0, 1] and
\* x-enum-descriptions, while the attribute of the same type has neither
C27_OwnDocumentationStillEnumerated ==
    /\ IsDict(rendered.json_schema)
    /\ ~ options.include_enums
    /\ TypeName = <<"u", "n", "s", "i", "g", "n", "e", "d", "B", "y", "t", "e">>
    /\ Truthy(PropertyInfo(1).enum_values)
    /\ JsonHas(1, <<"e", "n", "u", "m">>)
    /\ JsonValue(1, <<"e", "n", "u", "m">>) = ListV(<<IntV(0), IntV(1)>>)
    /\ JsonHas(1, <<"x", "-", "e", "n", "u", "m", "-", "d", "e", "s", "c", "r", "i", "p", "t", "i", "o", "n", "s">>)
    /\ SaysNoEnumeration(2)

(***************************************************************************)
(* Bitmasks with and without documentation (Spec).                         *)
(***************************************************************************)
\* the property schemas of Holder in the JSON Schema of the model at hand,
\* rendered with enumerations and with or without documentation
PropertiesUnder(docs) ==
    DictAt(DictAt(DictAt(generate_json_schema(Generator, docs, TRUE).d, StrV(<<"d", "e", "f", "i", "n", "i", "t", "i", "o", "n", "s">>)).d,
                  StrV(<<"H", "o", "l", "d", "e", "r">>)).d,
           StrV(<<"p", "r", "o", "p", "e", "r", "t", "i", "e", "s">>)).d
SchemaUnder(docs, n) == DictAt(PropertiesUnder(docs), PropertyName(n))
IsBitmaskUnder(docs, n) ==
    Carries(SchemaUnder(docs, n), <<"x", "-", "b", "i", "t", "-", "p", "o", "s", "i", "t", "i", "o", "n", "s">>) /\ ~ Carries(SchemaUnder(docs, n), <<"e", "n", "u", "m">>)
IsEnumerationUnder(docs, n) ==
    Carries(SchemaUnder(docs, n), <<"e", "n", "u", "m">>) \/ Carries(SchemaUnder(docs, n), <<"x", "-", "e", "n", "u", "m", "-", "d", "e", "s", "c", "r", "i", "p", "t", "i", "o", "n", "s">>)
WithoutDescription(schema) == SelectSeq(schema.d, LAMBDA i : i.k # StrV(<<"d", "e", "s", "c", "r", "i", "p", "t", "i", "o", "n">>))

\* C28: for one model, with enumerations included, the JSON Schemas rendered
\* with and without documentation agree for every property on whether it is
\* a bitmask (x-bit-positions, no enum) or a regular enumeration (enum or
\* x-enum-descriptions), and differ in nothing but the description
C28_BitmaskWhateverTheDocumentation ==
    (IsDict(rendered.json_schema) /\ options.include_enums) =>
        \A n \in 1..2 :
            /\ IsBitmaskUnder(TRUE, n) <=> IsBitmaskUnder(FALSE, n)
            /\ IsEnumerationUnder(TRUE, n) <=> IsEnumerationUnder(FALSE, n)
            /\ WithoutDescription(SchemaUnder(TRUE, n)) = WithoutDescription(SchemaUnder(FALSE, n))

\* the element p, typed HexBinary32, is documented "Bitmap / 0 = BitA /
\* 1 = BitB": rendered with documentation it is a bitmask, rendered without
\* it is a regular enumeration
C28_BitmaskOnlyWithDocumentation ==
    /\ IsDict(rendered.json_schema)
    /\ options.include_enums
    /\ options.include_docs
    /\ TypeName = <<"H", "e", "x", "B", "i", "n", "a", "r", "y", "3", "2">>
    /\ JsonHas(1, <<"x", "-", "b", "i", "t", "-", "p", "o", "s", "i", "t", "i", "o", "n", "s">>)
    /\ IsBitmaskUnder(TRUE, 1)
    /\ ~ IsBitmaskUnder(FALSE, 1)
    /\ Carries(SchemaUnder(FALSE, 1), <<"e", "n", "u", "m">>)

(***************************************************************************)
(* Mandatory properties in the JSON Schema and in SHACL (SpecItems).       *)
(***************************************************************************)
RecordRequired ==
    DictAt(DictAt(DictAt(rendered.json_schema.d, StrV(<<"d", "e", "f", "i", "n", "i", "t", "i", "o", "n", "s">>)).d, StrV(<<"R", "e", "c", "o", "r", "d">>)).d,
           StrV(<<"r", "e", "q", "u", "i", "r", "e", "d">>)).l
IsRequired(name) == \E n \in 1..Len(RecordRequired) : RecordRequired[n] = StrV(name)
\* the property shapes of RecordShape, the first node of the graph
RecordShapes == ValueOf(ShaclGraph[1], <<"s", "h", ":", "p", "r", "o", "p", "e", "r", "t", "y">>).l
HasMinCount(name) ==
    \E n \in 1..Len(RecordShapes) :
        /\ ValueOf(RecordShapes[n], <<"s", "h", ":", "p", "a", "t", "h">>) = IdOf(StrV(name))
        /\ Carries(RecordShapes[n], <<"s", "h", ":", "m", "i", "n", "C", "o", "u", "n", "t">>)
        /\ ValueOf(RecordShapes[n], <<"s", "h", ":", "m", "i", "n", "C", "o", "u", "n", "t">>) # IntV(0)
IsPositive(min_occurs) == IsDigitStr(min_occurs.s) /\ DecVal(min_occurs.s) > 0

\* C29: the name of an element or attribute is in the required array of its
\* type's JSON Schema exactly when its SHACL property shape has sh:minCount
\* of at least 1, which is exactly when its resolved minOccurs is greater
\* than 0, whatever the value of minOccurs
C29_RequiredIffMinCount ==
    (IsDict(rendered.shacl) /\ IsDict(rendered.json_schema)) =>
        /\ IsRequired(<<"e">>) <=> HasMinCount(<<"e">>)
        /\ HasMinCount(<<"e">>) <=> IsPositive(RecordElement.minOccurs)
        /\ IsRequired(<<"u">>) <=> HasMinCount(<<"u">>)
        /\ HasMinCount(<<"u">>) <=> (RecordInfo.attributes[1].use = StrV(<<"r", "e", "q", "u", "i", "r", "e", "d">>))

\* the element e of type xs:string has minOccurs "2": its shape has
\* sh:minCount 2, its schema exists, and e is not in the required array
C29_MinOccursTwoNotRequired ==
    /\ IsDict(rendered.shacl)
    /\ IsDict(rendered.json_schema)
    /\ RecordElement.type = StrV(<<"x", "s", ":", "s", "t", "r", "i", "n", "g">>)
    /\ RecordElement.minOccurs = StrV(<<"2">>)
    /\ HasSchema(<<"e">>)
    /\ HasMinCount(<<"e">>)
    /\ ~ IsRequired(<<"e">>)

(***************************************************************************)
(* References of the OpenAPI document (SpecPaths).                         *)
(***************************************************************************)
RECURSIVE RefsIn(_)
\* the values under "$ref" anywhere in a document
RefsIn(obj) ==
    IF IsDict(obj)
    THEN UNION {IF obj.d[n].k = StrV(<<"$", "r", "e", "f">>) THEN {obj.d[n].v} ELSE RefsIn(obj.d[n].v) :
                   n \in 1..Len(obj.d)}
    ELSE IF IsList(obj) THEN UNION {RefsIn(obj.l[n]) : n \in 1..Len(obj.l)}
    ELSE {}
ComponentSchemas ==
    DictAt(DictAt(rendered.openapi.d, StrV(<<"c", "o", "m", "p", "o", "n", "e", "n", "t", "s">>)).d, StrV(<<"s", "c", "h", "e", "m", "a", "s">>)).d
RefersToSchema(ref) ==
    /\ IsStr(ref)
    /\ StartsWith(ref.s, <<"#", "/", "c", "o", "m", "p", "o", "n", "e", "n", "t", "s", "/", "s", "c", "h", "e", "m", "a", "s", "/">>)
    /\ DictHas(ComponentSchemas, StrV(From(ref.s, Len(<<"#", "/", "c", "o", "m", "p", "o", "n", "e", "n", "t", "s", "/", "s", "c", "h", "e", "m", "a", "s", "/">>))))

\* C30: every $ref anywhere in the OpenAPI document (property schemas,
\* request bodies, response contents) is "#/components/schemas/<T>" with
\* <T> a key of components.schemas: no "#/definitions/" reference is left
\* and none points to a type without a schema
C30_EveryRefHasItsSchema ==
    Composed => \A ref \in RefsIn(rendered.openapi) : RefersToSchema(ref)

\* C30 witness: the element e of Record is of type Part and the Post of
\* EndDevice sends a sep:Part: both refer to the schema of Part, and the
\* response, whose element Gadget has no schema, refers to nothing
C30_PartReferredTwice ==
    /\ Composed
    /\ RecordElement.type = StrV(<<"P", "a", "r", "t">>)
    /\ DictAt(DictAt(ComponentSchemas, StrV(<<"R", "e", "c", "o", "r", "d">>)).d, StrV(<<"p", "r", "o", "p", "e", "r", "t", "i", "e", "s">>)).d[1].v
           = DictV(<<Item(StrV(<<"$", "r", "e", "f">>), StrV(<<"#", "/", "c", "o", "m", "p", "o", "n", "e", "n", "t", "s", "/", "s", "c", "h", "e", "m", "a", "s", "/", "P", "a", "r", "t">>))>>)
    /\ MethodName(MethodsOf(WadlResources[1])[1]) = <<"p", "o", "s", "t">>
    /\ DictHas(OperationOf(WadlResources[1], MethodsOf(WadlResources[1])[1]), StrV(<<"r", "e", "q", "u", "e", "s", "t", "B", "o", "d", "y">>))
    /\ RefsIn(DictAt(OperationOf(WadlResources[1], MethodsOf(WadlResources[1])[1]),
                     StrV(<<"r", "e", "q", "u", "e", "s", "t", "B", "o", "d", "y">>)))
           = {StrV(<<"#", "/", "c", "o", "m", "p", "o", "n", "e", "n", "t", "s", "/", "s", "c", "h", "e", "m", "a", "s", "/", "P", "a", "r", "t">>)}
    /\ DeclaredStatuses(MethodsOf(WadlResources[1])[1]) # <<>>
    /\ RefsIn(DictAt(OperationOf(WadlResources[1], MethodsOf(WadlResources[1])[1]),
                     StrV(<<"r", "e", "s", "p", "o", "n", "s", "e", "s">>))) = {}
    /\ RefsIn(rendered.openapi) = {StrV(<<"#", "/", "c", "o", "m", "p", "o", "n", "e", "n", "t", "s", "/", "s", "c", "h", "e", "m", "a", "s", "/", "P", "a", "r", "t">>)}
====
